---- MODULE Spec2Model ----
(***************************************************************************)
(* Model of the RTOS trace tools: the CSV loader and the three             *)
(* reconstructors (CPU timeline, lifecycle, blocking) of the visualizer    *)
(* scripts, and the line parsers that produce the CSV.                     *)
(*                                                                         *)
(* The scripts modelled, selected by `script':                             *)
(*   "visualize_pro"          src/RTOS3/visualize_pro.py                   *)
(*   "works_great"            src/visualize_interactive_works_great.py     *)
(*                            (viz_3.py and visualize_interactive_2.py run *)
(*                            the same loops)                              *)
(*   "visualize_interactive"  src/visualize_interactive.py                 *)
(*   "parse_trace_log"        src/RTOS/parse_trace_log.py                  *)
(*   "parse_in_out"           src/RTOS3/parse_in_out.py                    *)
(*                                                                         *)
(* A text is a sequence of lexemes: a word (a maximal run of letters,      *)
(* digits and underscores) or one character of punctuation or whitespace.  *)
(***************************************************************************)
EXTENDS Integers, Sequences, FiniteSets, TLC

VARIABLES
    script,             \* which script runs
    line,               \* parser: the line read from the log
    fields,             \* parser: the comma-separated fields the line was
                        \* written from, <<>> for a free-text line
    row,                \* parser: parse_line's result, <<r>> or <<>> for None
    out,                \* parser: the row after normalize_row, <<r>> or <<>>
    file,               \* parser: the lines of the log that main() iterates
    events,             \* parser: what each line read so far came to, the row
                        \* normalize_row returned or <<>> when there was none
    rows,               \* the CSV rows in file order (pd.read_csv)
    df,                 \* load_csv's result: normalized, sorted rows
    xmin_arg, xmax_arg, \* --xmin / --xmax: <<n>>, or <<>> when not given
    xmin, xmax,         \* the bounds the reconstructors use
    pc,                 \* position in main()
    i,                  \* rows of df the running loop has consumed
    current, start,     \* build_cpu_timeline locals
    timeline,           \* build_cpu_timeline: segments appended so far
    cpu_out,            \* build_cpu_timeline: the returned list
    creates,            \* lifecycle: ordered dict, a sequence of <<obj, tick>>
    deletes,            \* lifecycle: dict obj -> tick
    delete_edges,       \* lifecycle: list of <<tick, actor, obj>>
    life_out,           \* lifecycle: the returned segments
    last_blocking_api,  \* blocking: dict task -> "QUEUE" | "DELAY"
    open_block,         \* blocking: dict task -> <<kind, start>>
    blocking,           \* blocking: emitted <<task, kind, start, end>>
    globals,            \* visualize_interactive.py: the module's X_MIN and X_MAX
    calls               \* visualize_interactive.py: the calls of main() that
                        \* run in one process, each with its arguments, its
                        \* position and its locals

vars == <<script, line, fields, row, out, file, events, rows, xmin_arg, xmax_arg, df, xmin, xmax, pc, i, current, start, timeline,
          cpu_out, creates, deletes, delete_edges, life_out,
          last_blocking_api, open_block, blocking, globals, calls>>

callVars  == <<globals, calls>>
inputVars == <<script, rows, xmin_arg, xmax_arg>>
parseVars == <<line, fields, row, out, file, events>>
cpuVars   == <<current, start, timeline, cpu_out>>
lifeVars  == <<creates, deletes, delete_edges, life_out>>
blockVars == <<last_blocking_api, open_block, blocking>>

-----------------------------------------------------------------------------
(* Bounds of the model *)

MaxRows == 3        \* rows in the CSV file
MaxTick == 2        \* ticks are drawn from 0..MaxTick
MaxLex == 4         \* lexemes of a free-text line
MaxLines == 3       \* lines of a log file

-----------------------------------------------------------------------------
(* Values *)

None == "None"      \* Python None; an empty CSV cell (pandas NaN)
NaNStr == "nan"     \* str(NaN), what astype(str) makes of an empty cell

SWITCHED_IN  == "traceTASK_SWITCHED_IN"
SWITCHED_OUT == "traceTASK_SWITCHED_OUT"
TASK_CREATE  == "EVT_TASK_CREATE"
TASK_DELETE  == "EVT_TASK_DELETE"

IDLE == "IDLE"

Scripts == {"visualize_pro", "works_great", "visualize_interactive"}

\* Module constants of visualize_interactive.py
X_MIN == -10
X_MAX == 12000

\* The margin infer_xrange puts around the data when no bound is given
XMargin == 10

EXCLUDE_CPU_TASKS(s) == {"Flush"}

EXCLUDE_LIFECYCLE_TASKS(s) ==
    IF s = "visualize_pro" THEN {"Flush", "esp_timer"} ELSE {"Flush"}

EXCLUDE_BLOCK_TASKS(s) ==
    IF s = "visualize_pro" THEN {"Flush", "esp_timer", IDLE} ELSE {"Flush"}

-----------------------------------------------------------------------------
(* Sequences *)

SeqsUpTo(S, n) == UNION {[1..k -> S] : k \in 0..n}

Range(s) == {s[k] : k \in DOMAIN s}

RECURSIVE MinOf(_)
MinOf(S) ==
    LET x == CHOOSE y \in S : TRUE
    IN  IF S = {x} THEN x
        ELSE LET m == MinOf(S \ {x}) IN IF x < m THEN x ELSE m

RECURSIVE MaxOf(_)
MaxOf(S) ==
    LET x == CHOOSE y \in S : TRUE
    IN  IF S = {x} THEN x
        ELSE LET m == MaxOf(S \ {x}) IN IF x > m THEN x ELSE m

IsSortedByTick(s) ==
    \A k \in 1..(Len(s) - 1) : s[k].tick <= s[k + 1].tick

-----------------------------------------------------------------------------
(* load_csv *)

\* pd.to_numeric(..., errors="coerce").fillna(0).astype(int)
\* A tick cell is <<n>>, or <<>> when the cell is empty or not a number.
TickToInt(t) == IF t = <<>> THEN 0 ELSE t[1]

\* .astype(str) on a column read by pd.read_csv
AsStr(x) == IF x = None THEN NaNStr ELSE x

NormalizeColumns(r) ==
    [eventtype |-> AsStr(r.eventtype),
     tick      |-> TickToInt(r.tick),
     taskid    |-> AsStr(r.taskid),
     object    |-> AsStr(r.object),
     ord       |-> r.ord]

\* df.sort_values("tick", kind="stable")
RECURSIVE StableSort(_)
StableSort(s) ==
    IF s = <<>> THEN <<>>
    ELSE LET m == MinOf({s[k].tick : k \in DOMAIN s})
             IsMin(r) == r.tick = m
             NotMin(r) == r.tick # m
         IN  SelectSeq(s, IsMin) \o StableSort(SelectSeq(s, NotMin))

\* df.sort_values("tick"): pandas' default kind is "quicksort", which gives
\* no order among rows of equal tick; any sorted arrangement can come out.
UnstableSorts(s) ==
    {q \in {[k \in DOMAIN s |-> s[p[k]]] : p \in Permutations(DOMAIN s)} :
        IsSortedByTick(q)}

SortValues(s, sc) ==
    IF sc = "visualize_interactive" THEN UnstableSorts(s) ELSE {StableSort(s)}

LoadCsv ==
    /\ pc = "load"
    /\ df' \in SortValues([k \in DOMAIN rows |-> NormalizeColumns(rows[k])], script)
    /\ pc' = "xrange"
    /\ UNCHANGED <<callVars, parseVars, inputVars, xmin, xmax, i, cpuVars, lifeVars, blockVars>>

\* load_data of visualize.py: pd.to_numeric(..., errors='coerce'), then
\* dropna(subset=['tick']) and astype(int); the rows keep their file order
\* and their other cells
HasTick(r) == r.tick # <<>>

DropNa(s) == SelectSeq(s, HasTick)

LoadData ==
    /\ pc = "load"
    /\ df' = [k \in DOMAIN DropNa(rows) |-> [DropNa(rows)[k] EXCEPT !.tick = @[1]]]
    /\ pc' = "loaded"
    /\ UNCHANGED <<callVars, parseVars, inputVars, xmin, xmax, i, cpuVars, lifeVars, blockVars>>

-----------------------------------------------------------------------------
(* infer_xrange; in visualize_interactive.py main() sets X_MIN and X_MAX *)

DMin(d) == IF d = <<>> THEN 0 ELSE MinOf({d[k].tick : k \in DOMAIN d})
DMax(d) == IF d = <<>> THEN 0 ELSE MaxOf({d[k].tick : k \in DOMAIN d})

\* An argument is <<n>>, or <<>> when it is not given on the command line.
XminOf(d, lo_arg, sc) ==
    IF sc = "visualize_interactive"
    THEN (IF lo_arg = <<>> THEN X_MIN ELSE lo_arg[1])
    ELSE (IF lo_arg = <<>> THEN DMin(d) - XMargin ELSE lo_arg[1])

\* XmaxRaw with no margin after the last tick
XmaxRawNoMargin(d, hi_arg, sc) ==
    IF sc = "visualize_interactive"
    THEN (IF hi_arg = <<>> THEN X_MAX ELSE hi_arg[1])
    ELSE (IF hi_arg = <<>> THEN DMax(d) ELSE hi_arg[1])

XmaxRaw(d, hi_arg, sc) ==
    IF sc = "visualize_interactive"
    THEN (IF hi_arg = <<>> THEN X_MAX ELSE hi_arg[1])
    ELSE (IF hi_arg = <<>> THEN DMax(d) + XMargin ELSE hi_arg[1])

\* XmaxOf that keeps the bound as given or inferred
XmaxOfAsGiven(d, lo_arg, hi_arg, sc) == XmaxRaw(d, hi_arg, sc)

XmaxOf(d, lo_arg, hi_arg, sc) ==
    LET lo == XminOf(d, lo_arg, sc)
        hi == XmaxRaw(d, hi_arg, sc)
    IN  IF sc # "visualize_interactive" /\ hi <= lo THEN lo + 1 ELSE hi

InferXrange ==
    /\ pc = "xrange"
    /\ xmin' = XminOf(df, xmin_arg, script)
    /\ xmax' = XmaxOf(df, xmin_arg, xmax_arg, script)
    /\ pc' = "ready"
    /\ UNCHANGED <<callVars, parseVars, inputVars, df, i, cpuVars, lifeVars, blockVars>>

-----------------------------------------------------------------------------
(* Python dicts, in insertion order: a sequence of <<key, value>> *)

DictHas(d, k) == \E n \in DOMAIN d : d[n][1] = k

DictGet(d, k) == d[CHOOSE n \in DOMAIN d : d[n][1] = k][2]

DictKeys(d) == {d[n][1] : n \in DOMAIN d}

\* d[k] = v
DictSet(d, k, v) ==
    IF DictHas(d, k)
    THEN [n \in DOMAIN d |-> IF d[n][1] = k THEN <<k, v>> ELSE d[n]]
    ELSE Append(d, <<k, v>>)

\* d.setdefault(k, v)
DictSetDefault(d, k, v) == IF DictHas(d, k) THEN d ELSE Append(d, <<k, v>>)

\* del d[k] / d.pop(k)
DictDel(d, k) ==
    LET Other(e) == e[1] # k IN SelectSeq(d, Other)

-----------------------------------------------------------------------------
(* build_cpu_timeline *)

CpuBegin ==
    /\ pc = "ready"
    /\ current' = IDLE
    /\ start' = xmin
    /\ timeline' = <<>>
    /\ i' = 0
    /\ pc' = "cpu"
    /\ UNCHANGED <<callVars, parseVars, inputVars, df, xmin, xmax, cpu_out, lifeVars, blockVars>>

\* CpuIter with a switch-out that does not restart the segment
CpuIterKeepsStart(r, c) ==
    IF r.eventtype = SWITCHED_IN
    THEN [current  |-> r.taskid,
          start    |-> r.tick,
          timeline |-> Append(c.timeline, <<c.current, c.start, r.tick>>)]
    ELSE IF r.eventtype = SWITCHED_OUT
    THEN [current  |-> IDLE,
          start    |-> c.start,
          timeline |-> Append(c.timeline, <<c.current, c.start, r.tick>>)]
    ELSE c

\* CpuIter with a switch-in that goes on with the running segment when the
\* task is the current one already
CpuIterMergesSameTask(r, c) ==
    IF r.eventtype = SWITCHED_IN
    THEN (IF r.taskid = c.current THEN c
          ELSE [current  |-> r.taskid,
                start    |-> r.tick,
                timeline |-> Append(c.timeline, <<c.current, c.start, r.tick>>)])
    ELSE IF r.eventtype = SWITCHED_OUT
    THEN [current  |-> IDLE,
          start    |-> r.tick,
          timeline |-> Append(c.timeline, <<c.current, c.start, r.tick>>)]
    ELSE c

\* CpuIter with a switch-out that acts only when its task is the current one
CpuIterChecksOutTask(r, c) ==
    IF r.eventtype = SWITCHED_IN
    THEN [current  |-> r.taskid,
          start    |-> r.tick,
          timeline |-> Append(c.timeline, <<c.current, c.start, r.tick>>)]
    ELSE IF r.eventtype = SWITCHED_OUT /\ r.taskid = c.current
    THEN [current  |-> IDLE,
          start    |-> r.tick,
          timeline |-> Append(c.timeline, <<c.current, c.start, r.tick>>)]
    ELSE c

\* CpuIter that cuts the running segment at every event
CpuIterCutsAtEveryEvent(r, c) ==
    IF r.eventtype = SWITCHED_IN
    THEN [current  |-> r.taskid,
          start    |-> r.tick,
          timeline |-> Append(c.timeline, <<c.current, c.start, r.tick>>)]
    ELSE IF r.eventtype = SWITCHED_OUT
    THEN [current  |-> IDLE,
          start    |-> r.tick,
          timeline |-> Append(c.timeline, <<c.current, c.start, r.tick>>)]
    ELSE [current  |-> c.current,
          start    |-> r.tick,
          timeline |-> Append(c.timeline, <<c.current, c.start, r.tick>>)]

\* CpuIter with a switch-out that leaves the current task in place
CpuIterKeepsCurrent(r, c) ==
    IF r.eventtype = SWITCHED_IN
    THEN [current  |-> r.taskid,
          start    |-> r.tick,
          timeline |-> Append(c.timeline, <<c.current, c.start, r.tick>>)]
    ELSE IF r.eventtype = SWITCHED_OUT
    THEN [current  |-> c.current,
          start    |-> r.tick,
          timeline |-> Append(c.timeline, <<c.current, c.start, r.tick>>)]
    ELSE c

\* The loop body on row r; c holds the locals current, start, timeline
CpuIter(r, c) ==
    IF r.eventtype = SWITCHED_IN
    THEN [current  |-> r.taskid,
          start    |-> r.tick,
          timeline |-> Append(c.timeline, <<c.current, c.start, r.tick>>)]
    ELSE IF r.eventtype = SWITCHED_OUT
    THEN [current  |-> IDLE,
          start    |-> r.tick,
          timeline |-> Append(c.timeline, <<c.current, c.start, r.tick>>)]
    ELSE c

CpuStep ==
    /\ pc = "cpu"
    /\ i < Len(df)
    /\ LET c == CpuIter(df[i + 1],
                        [current |-> current, start |-> start, timeline |-> timeline])
       IN  /\ current' = c.current
           /\ start' = c.start
           /\ timeline' = c.timeline
    /\ i' = i + 1
    /\ UNCHANGED <<callVars, parseVars, inputVars, df, xmin, xmax, pc, cpu_out, lifeVars, blockVars>>

\* What build_cpu_timeline returns of the full timeline tl
CpuReturned(tl, sc) ==
    LET Kept(seg) ==
            /\ seg[1] \notin EXCLUDE_CPU_TASKS(sc)
            /\ (sc = "visualize_interactive" => seg[3] > seg[2])
    IN  SelectSeq(tl, Kept)

\* After the loop: the final segment, then the filter
CpuFinish ==
    /\ pc = "cpu"
    /\ i = Len(df)
    /\ timeline' = Append(timeline, <<current, start, xmax>>)
    /\ cpu_out' = CpuReturned(timeline', script)
    /\ pc' = "cpu_done"
    /\ UNCHANGED <<callVars, parseVars, inputVars, df, xmin, xmax, i, current, start, lifeVars, blockVars>>

-----------------------------------------------------------------------------
(* extract_lifecycle / build_lifecycle *)

LifeBegin ==
    /\ pc = "ready"
    /\ creates' = <<>>
    /\ deletes' = <<>>
    /\ delete_edges' = <<>>
    /\ i' = 0
    /\ pc' = "life"
    /\ UNCHANGED <<callVars, parseVars, inputVars, df, xmin, xmax, life_out, cpuVars, blockVars>>

\* The guard on the object of a row
LifeSkips(obj, sc) ==
    IF sc = "visualize_interactive"
    THEN obj = "" \/ obj \in EXCLUDE_LIFECYCLE_TASKS(sc)
    ELSE obj \in EXCLUDE_LIFECYCLE_TASKS(sc)

\* RecordCreate where every script overwrites: the last create wins
RecordCreateLast(d, obj, tick, sc) == DictSet(d, obj, tick)

\* creates.setdefault(obj, tick); visualize_interactive.py: creates[obj] = tick
RecordCreate(d, obj, tick, sc) ==
    IF sc = "visualize_interactive"
    THEN DictSet(d, obj, tick)
    ELSE DictSetDefault(d, obj, tick)

\* RecordDelete with setdefault: the first delete wins
RecordDeleteFirst(d, obj, tick) == DictSetDefault(d, obj, tick)

\* deletes[obj] = tick
RecordDelete(d, obj, tick) == DictSet(d, obj, tick)

\* RecordEdge that keeps one edge per object, the first
RecordEdgeOncePerObject(edges, r, sc) ==
    IF sc = "visualize_pro" \/ (\E n \in DOMAIN edges : edges[n][3] = r.object)
    THEN edges
    ELSE Append(edges, <<r.tick, r.taskid, r.object>>)

\* delete_edges.append((tick, actor, obj)); extract_lifecycle of
\* visualize_pro.py keeps no delete edges
RecordEdge(edges, r, sc) ==
    IF sc = "visualize_pro" THEN edges
    ELSE Append(edges, <<r.tick, r.taskid, r.object>>)

\* The loop body on row r; c holds creates, deletes, delete_edges
LifeIter(r, c, sc) ==
    IF r.eventtype \notin {TASK_CREATE, TASK_DELETE} \/ LifeSkips(r.object, sc)
    THEN c
    ELSE IF r.eventtype = TASK_CREATE
    THEN [c EXCEPT !.creates = RecordCreate(c.creates, r.object, r.tick, sc)]
    ELSE [c EXCEPT !.deletes = RecordDelete(c.deletes, r.object, r.tick),
                   !.delete_edges = RecordEdge(c.delete_edges, r, sc)]

LifeStep ==
    /\ pc = "life"
    /\ i < Len(df)
    /\ LET c == LifeIter(df[i + 1],
                         [creates |-> creates, deletes |-> deletes,
                          delete_edges |-> delete_edges], script)
       IN  /\ creates' = c.creates
           /\ deletes' = c.deletes
           /\ delete_edges' = c.delete_edges
    /\ i' = i + 1
    /\ UNCHANGED <<callVars, parseVars, inputVars, df, xmin, xmax, pc, life_out, cpuVars, blockVars>>

\* Task names in the order Python's sorted() gives them
NameOrder == <<"Flush", "IDLE", "Main", "T1", "T2", "W1", "W2", "esp_timer", "nan">>

\* The end of the segment of an object created at s
LifeEnd(s, cr, de, obj, hi, sc) ==
    LET e == IF DictHas(de, obj) THEN DictGet(de, obj) ELSE hi
    IN  IF sc = "visualize_interactive" /\ e <= s THEN s + 1 ELSE e

\* The segments returned for the dicts cr (creates) and de (deletes)
LifeSegments(cr, de, hi, sc) ==
    LET Created(n) == DictHas(cr, n)
        keys == IF sc = "visualize_interactive"
                THEN SelectSeq(NameOrder, Created)
                ELSE [n \in DOMAIN cr |-> cr[n][1]]
        Kept(n) == n \notin EXCLUDE_LIFECYCLE_TASKS(sc)
        kept == IF sc = "visualize_pro" THEN SelectSeq(keys, Kept) ELSE keys
    IN  [n \in DOMAIN kept |->
            <<kept[n], DictGet(cr, kept[n]),
              LifeEnd(DictGet(cr, kept[n]), cr, de, kept[n], hi, sc)>>]

LifeFinish ==
    /\ pc = "life"
    /\ i = Len(df)
    /\ life_out' = LifeSegments(creates, deletes, xmax, script)
    /\ pc' = "life_done"
    /\ UNCHANGED <<callVars, parseVars, inputVars, df, xmin, xmax, i, creates, deletes, delete_edges,
                   cpuVars, blockVars>>

-----------------------------------------------------------------------------
(* extract_blocking *)

QueueEvents == {"EVT_QUEUE_RECEIVE", "EVT_QUEUE_SEND",
                "EVT_QUEUE_RECEIVE_FROM_ISR", "EVT_QUEUE_SEND_FROM_ISR"}

DelayEvents == {"EVT_TASK_DELAY", "EVT_TASK_DELAY_UNTIL"}

BlockBegin ==
    /\ pc = "ready"
    /\ last_blocking_api' = <<>>
    /\ open_block' = <<>>
    /\ blocking' = <<>>
    /\ i' = 0
    /\ pc' = "block"
    /\ UNCHANGED <<callVars, parseVars, inputVars, df, xmin, xmax, cpuVars, lifeVars>>

\* A queue or delay API call of row r's task, classified as kind
OnBlockingCall(r, c, kind) ==
    [c EXCEPT !.last_blocking_api = DictSet(c.last_blocking_api, r.taskid, kind)]

\* traceTASK_SWITCHED_OUT with the consumed call left in last_blocking_api
OnSwitchedOutKeepsApi(r, c) ==
    IF DictHas(c.last_blocking_api, r.taskid)
    THEN [c EXCEPT
            !.open_block = DictSet(c.open_block, r.taskid,
                                   <<DictGet(c.last_blocking_api, r.taskid), r.tick>>)]
    ELSE c

\* traceTASK_SWITCHED_OUT that leaves a block that is already open as it is
OnSwitchedOutKeepsOpenBlock(r, c) ==
    IF DictHas(c.last_blocking_api, r.taskid)
    THEN [c EXCEPT
            !.open_block = DictSetDefault(c.open_block, r.taskid,
                                          <<DictGet(c.last_blocking_api, r.taskid), r.tick>>),
            !.last_blocking_api = DictDel(c.last_blocking_api, r.taskid)]
    ELSE c

\* traceTASK_SWITCHED_OUT
OnSwitchedOut(r, c) ==
    IF DictHas(c.last_blocking_api, r.taskid)
    THEN [c EXCEPT
            !.open_block = DictSet(c.open_block, r.taskid,
                                   <<DictGet(c.last_blocking_api, r.taskid), r.tick>>),
            !.last_blocking_api = DictDel(c.last_blocking_api, r.taskid)]
    ELSE c

\* Whether the segment (st, r.tick) a switch-in closes is recorded
EmitsSegment(r, st, sc) == sc = "visualize_interactive" => r.tick > st

\* traceTASK_SWITCHED_IN
OnSwitchedIn(r, c, sc) ==
    IF DictHas(c.open_block, r.taskid)
    THEN LET ob == DictGet(c.open_block, r.taskid) IN
         [c EXCEPT
            !.open_block = DictDel(c.open_block, r.taskid),
            !.blocking = IF EmitsSegment(r, ob[2], sc)
                         THEN Append(c.blocking, <<r.taskid, ob[1], ob[2], r.tick>>)
                         ELSE c.blocking]
    ELSE c

\* The loop body on row r; c holds last_blocking_api, open_block, blocking
BlockIter(r, c, sc) ==
    IF r.taskid \in EXCLUDE_BLOCK_TASKS(sc) THEN c
    ELSE IF r.eventtype \in QueueEvents THEN OnBlockingCall(r, c, "QUEUE")
    ELSE IF r.eventtype \in DelayEvents THEN OnBlockingCall(r, c, "DELAY")
    ELSE IF r.eventtype = SWITCHED_OUT THEN OnSwitchedOut(r, c)
    ELSE IF r.eventtype = SWITCHED_IN THEN OnSwitchedIn(r, c, sc)
    ELSE c

BlockStep ==
    /\ pc = "block"
    /\ i < Len(df)
    /\ LET c == BlockIter(df[i + 1],
                          [last_blocking_api |-> last_blocking_api,
                           open_block |-> open_block, blocking |-> blocking], script)
       IN  /\ last_blocking_api' = c.last_blocking_api
           /\ open_block' = c.open_block
           /\ blocking' = c.blocking
    /\ i' = i + 1
    /\ UNCHANGED <<callVars, parseVars, inputVars, df, xmin, xmax, pc, cpuVars, lifeVars>>

\* BlockFinish that closes at xmax the blocks that are still open
BlockFinishClosesAtXmax ==
    /\ pc = "block"
    /\ i = Len(df)
    /\ pc' = "block_done"
    /\ blocking' = blocking \o [n \in DOMAIN open_block |->
                                  <<open_block[n][1], open_block[n][2][1],
                                    open_block[n][2][2], xmax>>]
    /\ UNCHANGED <<callVars, parseVars, inputVars, df, xmin, xmax, i, cpuVars, lifeVars,
                   last_blocking_api, open_block>>

\* The scratch dicts are dropped and the segments returned
BlockFinish ==
    /\ pc = "block"
    /\ i = Len(df)
    /\ pc' = "block_done"
    /\ UNCHANGED <<callVars, parseVars, inputVars, df, xmin, xmax, i, cpuVars, lifeVars, blockVars>>

-----------------------------------------------------------------------------
(* Texts.  A word of the model carries what the regular expressions and    *)
(* the str methods of the parsers read from its characters.                *)

Space == " "
Newline == "\n"
Whitespace == {Space, Newline}

IsWord(x) == x \notin Whitespace \cup {",", "=", ":", "[", "]"}

\* The words t with t.isdigit(); each has at most 10 digits
DigitWords == {"12", "007"}

\* int(w) of a digit word
IntValue(w) == IF w = "007" THEN 7 ELSE 12

\* The other words that hold a digit
WordsWithDigit == DigitWords \cup {"T1", "W1"}

\* <<w, w.lower(), w.upper()>> for the words that hold a letter
Casing ==
    {<<"EVT_TASK_CREATE", "evt_task_create", "EVT_TASK_CREATE">>,
     <<"EVT_TASK_CREATED", "evt_task_created", "EVT_TASK_CREATED">>,
     <<"EVT_QUEUE_SEND", "evt_queue_send", "EVT_QUEUE_SEND">>,
     <<"EVT_TASK_SWITCHED_IN", "evt_task_switched_in", "EVT_TASK_SWITCHED_IN">>,
     <<"EVT_TASK_SWITCHED_OUT", "evt_task_switched_out", "EVT_TASK_SWITCHED_OUT">>,
     <<"traceTASK_SWITCHED_IN", "tracetask_switched_in", "TRACETASK_SWITCHED_IN">>,
     <<"traceTASK_SWITCHED_OUT", "tracetask_switched_out", "TRACETASK_SWITCHED_OUT">>,
     <<"tracetask_switched_out", "tracetask_switched_out", "TRACETASK_SWITCHED_OUT">>,
     <<"tick", "tick", "TICK">>,
     <<"taskid", "taskid", "TASKID">>,
     <<"Flush", "flush", "FLUSH">>,
     <<"T1", "t1", "T1">>,
     <<"W1", "w1", "W1">>,
     <<"ts", "ts", "TS">>,
     <<"abc", "abc", "ABC">>,
     <<"foo", "foo", "FOO">>,
     <<"s", "s", "S">>}

CasingOf(w) == CHOOSE c \in Casing : c[1] = w

\* str.lower() and str.upper() of one lexeme
LowerWord(w) == IF \E c \in Casing : c[1] = w THEN CasingOf(w)[2] ELSE w
UpperWord(w) == IF \E c \in Casing : c[1] = w THEN CasingOf(w)[3] ELSE w

\* str.lower() of a text
Lower(s) == [k \in DOMAIN s |-> LowerWord(s[k])]

RECURSIVE LStrip(_)
LStrip(s) == IF s # <<>> /\ Head(s) \in Whitespace THEN LStrip(Tail(s)) ELSE s

RECURSIVE RStrip(_)
RStrip(s) ==
    IF s # <<>> /\ s[Len(s)] \in Whitespace
    THEN RStrip(SubSeq(s, 1, Len(s) - 1)) ELSE s

\* str.strip()
Strip(s) == LStrip(RStrip(s))

\* str.rstrip('\n')
RECURSIVE RStripNewline(_)
RStripNewline(s) ==
    IF s # <<>> /\ s[Len(s)] = Newline
    THEN RStripNewline(SubSeq(s, 1, Len(s) - 1)) ELSE s

\* The first position from p on that holds no whitespace (\s*)
RECURSIVE SkipSpace(_, _)
SkipSpace(s, p) ==
    IF p <= Len(s) /\ s[p] \in Whitespace THEN SkipSpace(s, p + 1) ELSE p

\* re.findall(r'\b[A-Za-z0-9_]+\b', s); the token class of parse_in_out.py
\* adds @ / . and -, which no text of the model holds
Tokens(s) == SelectSeq(s, IsWord)

NotDigits(t) == t \notin DigitWords

\* [t for t in tokens if not t.isdigit()]
NonNumeric(ts) == SelectSeq(ts, NotDigits)

-----------------------------------------------------------------------------
(* parse_trace_log.py *)

EVENT_MAP ==
    [k \in {"EVT_QUEUE_SEND", "EVT_QUEUE_SEND_FAILED", "EVT_QUEUE_SEND_FROM_ISR",
            "EVT_QUEUE_SEND_FROM_ISR_FAILED", "EVT_QUEUE_RECEIVE",
            "EVT_QUEUE_RECEIVE_FAILED", "EVT_QUEUE_RECEIVE_FROM_ISR",
            "EVT_QUEUE_RECEIVE_FROM_ISR_FAILED", "EVT_TASK_INCREMENT_TICK",
            "EVT_TASK_CREATE", "EVT_TASK_CREATE_FAILED", "EVT_TASK_DELETE",
            "EVT_TASK_DELAY", "EVT_TASK_DELAY_UNTIL", "EVT_TASK_SWITCHED_IN",
            "EVT_TASK_SWITCHED_OUT", SWITCHED_IN, SWITCHED_OUT} |->
        IF k = "EVT_TASK_SWITCHED_IN" THEN SWITCHED_IN
        ELSE IF k = "EVT_TASK_SWITCHED_OUT" THEN SWITCHED_OUT
        ELSE k]

FILTER_TASKIDS == {<<"flush">>}

CommasOf(s) == {k \in DOMAIN s : s[k] = ","}

\* The position of the n-th comma of s
NthComma(s, n) ==
    CHOOSE k \in CommasOf(s) : Cardinality({j \in CommasOf(s) : j <= k}) = n

\* What lies between the (n-1)-th and the n-th comma; for n = 7 what follows
\* the sixth comma, further commas included
Group(s, n) ==
    SubSeq(s, IF n = 1 THEN 1 ELSE NthComma(s, n - 1) + 1,
              IF n = 7 THEN Len(s) ELSE NthComma(s, n) - 1)

\* CSV_LIKE_RE.match: six commas; ([^,]+) needs a character in the first and
\* in the second field; (.*)\s*$ lets a newline be followed by whitespace only
CSV_LIKE_RE(s) ==
    /\ Cardinality(CommasOf(s)) >= 6
    /\ Group(s, 1) # <<>>
    /\ Group(s, 2) # <<>>
    /\ LET last == Group(s, 7) IN
       \A k \in DOMAIN last :
           last[k] = Newline => \A m \in k..Len(last) : last[m] \in Whitespace

\* <<dict>>, or <<>> for None
extract_from_csv_like(s) ==
    IF ~CSV_LIKE_RE(s) THEN <<>>
    ELSE <<[eventtype_raw |-> Strip(Group(s, 1)),
            tick          |-> Strip(Group(s, 2)),
            timestamp     |-> Strip(Group(s, 3)),
            taskid        |-> Strip(Group(s, 4)),
            object        |-> Strip(Group(s, 5)),
            value         |-> Strip(Group(s, 6)),
            src           |-> Strip(Group(s, 7))]>>

\* ([^\s,\]\[]+) takes the lexemes up to whitespace, a comma or a bracket
IsValueChar(x) == x \notin Whitespace \cup {",", "[", "]"}

\* One past the last lexeme of the value that starts at p
RECURSIVE ValueEnd(_, _)
ValueEnd(s, p) ==
    IF p <= Len(s) /\ IsValueChar(s[p]) THEN ValueEnd(s, p + 1) ELSE p

\* KV_PAIR_RE matched at p: <<key, value, end>>, or <<>>.  The key
\* (\b[a-zA-Z_]+) is a whole word without a digit.
KvMatchAt(s, p) ==
    IF ~IsWord(s[p]) \/ s[p] \in WordsWithDigit THEN <<>>
    ELSE LET a == SkipSpace(s, p + 1) IN
         IF a > Len(s) \/ s[a] \notin {":", "="} THEN <<>>
         ELSE LET b == SkipSpace(s, a + 1)
                  e == ValueEnd(s, b)
              IN  IF e = b THEN <<>> ELSE <<s[p], SubSeq(s, b, e - 1), e>>

\* KV_PAIR_RE.findall from position p on
RECURSIVE KvFindall(_, _)
KvFindall(s, p) ==
    IF p > Len(s) THEN <<>>
    ELSE LET m == KvMatchAt(s, p) IN
         IF m = <<>> THEN KvFindall(s, p + 1)
         ELSE <<<<m[1], m[2]>>>> \o KvFindall(s, m[3])

\* dict(pairs): a later pair replaces the value of an earlier one
RECURSIVE DictOf(_)
DictOf(pairs) ==
    IF pairs = <<>> THEN <<>>
    ELSE LET n == Len(pairs) IN
         DictSet(DictOf(SubSeq(pairs, 1, n - 1)), pairs[n][1], pairs[n][2])

\* kv.get(k, '')
DictGetOr(d, k) == IF DictHas(d, k) THEN DictGet(d, k) ELSE <<>>

extract_kv(s) == DictOf(KvFindall(s, 1))

\* EVENT_KEY_RE.search: the first word that is a key of EVENT_MAP, as <<key>>
find_event_key(s) ==
    LET hits == {k \in DOMAIN s : s[k] \in DOMAIN EVENT_MAP}
    IN  IF hits = {} THEN <<>> ELSE <<s[MinOf(hits)]>>

\* BRACKET_TICK_RE matched on the word at p: "tick", an optional : or =,
\* whitespace, digits.  No word of the model holds "tick" inside a longer
\* word.  ic is re.IGNORECASE.
BracketTickAt(s, p, ic) ==
    IF (IF ic THEN LowerWord(s[p]) ELSE s[p]) # "tick" THEN <<>>
    ELSE LET a == IF p + 1 <= Len(s) /\ s[p + 1] \in {":", "="}
                  THEN p + 2 ELSE p + 1
             b == SkipSpace(s, a)
         IN  IF b <= Len(s) /\ s[b] \in DigitWords THEN <<s[b]>> ELSE <<>>

\* BRACKET_TICK_RE.search: group 1 of the first match, or <<>>
BRACKET_TICK_RE(s, ic) ==
    LET hits == {p \in DOMAIN s : BracketTickAt(s, p, ic) # <<>>}
    IN  IF hits = {} THEN <<>> ELSE BracketTickAt(s, MinOf(hits), ic)

\* FIRST_INT_RE.search: the first word of 1 to 10 digits, or <<>>
FIRST_INT_RE(s) ==
    LET hits == {p \in DOMAIN s : s[p] \in DigitWords}
    IN  IF hits = {} THEN <<>> ELSE <<s[MinOf(hits)]>>

\* str.isdigit()
IsDigit(t) == Len(t) = 1 /\ t[1] \in DigitWords

\* best_effort_tick of parse_trace_log.py (ic false), best_tick of
\* parse_in_out.py (ic true)
TickHeuristic(s, kv, ic) ==
    IF DictHas(kv, "tick") /\ IsDigit(DictGet(kv, "tick")) THEN DictGet(kv, "tick")
    ELSE IF BRACKET_TICK_RE(s, ic) # <<>> THEN BRACKET_TICK_RE(s, ic)
    ELSE FIRST_INT_RE(s)

best_effort_tick(s, kv) == TickHeuristic(s, kv, FALSE)

best_effort_taskid(s, kv) ==
    IF DictHas(kv, "taskid") THEN DictGet(kv, "taskid")
    ELSE IF DictHas(kv, "task") THEN DictGet(kv, "task")
    ELSE IF DictHas(kv, "task_name") THEN DictGet(kv, "task_name")
    ELSE LET tokens == NonNumeric(Tokens(s))
             event == find_event_key(s)
             rest == IF event # <<>> /\ tokens # <<>> /\ tokens[1] = event[1]
                     THEN Tail(tokens) ELSE tokens
         IN  IF rest = <<>> THEN <<>> ELSE <<rest[Len(rest)]>>

\* normalize_eventname that falls back to the raw name when it is no key
normalize_eventname_or_raw(raw) ==
    IF raw = <<>> THEN <<>>
    ELSE LET t == Strip(raw) IN
         IF Len(t) = 1 /\ t[1] \in DOMAIN EVENT_MAP THEN <<EVENT_MAP[t[1]]>>
         ELSE IF Len(t) = 1 THEN <<t[1]>> ELSE <<>>

\* <<kind>>, or <<>> for None; raw is a text
normalize_eventname(raw) ==
    IF raw = <<>> THEN <<>>
    ELSE LET t == Strip(raw) IN
         IF Len(t) = 1 /\ t[1] \in DOMAIN EVENT_MAP THEN <<EVENT_MAP[t[1]]>> ELSE <<>>

\* <<row>>, or <<>> for None
parse_line(s) ==
    LET parsed == extract_from_csv_like(s)
        found == find_event_key(s)
        kv == extract_kv(s)
    IN  IF parsed # <<>>
        THEN LET first == normalize_eventname(parsed[1].eventtype_raw)
                 norm == IF first # <<>> THEN first
                         ELSE IF found # <<>> THEN normalize_eventname(found)
                         ELSE <<>>
             IN  IF norm = <<>> THEN <<>>
                 ELSE <<[eventtype |-> norm[1],
                         tick      |-> IF parsed[1].tick # <<>> THEN parsed[1].tick
                                       ELSE best_effort_tick(s, kv),
                         timestamp |-> parsed[1].timestamp,
                         taskid    |-> IF parsed[1].taskid # <<>> THEN parsed[1].taskid
                                       ELSE best_effort_taskid(s, kv),
                         object    |-> parsed[1].object,
                         value     |-> parsed[1].value,
                         src       |-> parsed[1].src]>>
        ELSE IF found = <<>> THEN <<>>
        ELSE IF normalize_eventname(found) = <<>> THEN <<>>
        ELSE <<[eventtype |-> normalize_eventname(found)[1],
                tick      |-> best_effort_tick(s, kv),
                timestamp |-> DictGetOr(kv, "timestamp"),
                taskid    |-> best_effort_taskid(s, kv),
                object    |-> DictGetOr(kv, "object"),
                value     |-> DictGetOr(kv, "value"),
                src       |-> DictGetOr(kv, "src")]>>

\* The conversion with 0 for a tick that is no number
TickOrZero(t) ==
    IF IsDigit(Strip(t)) THEN <<IntValue(Strip(t)[1])>>
    ELSE IF t = <<>> THEN <<>> ELSE <<0>>

\* int(row['tick']) if row['tick'] != '' else '', '' on an exception: <<n>>,
\* or <<>> for ''.  int() accepts surrounding whitespace.
TickOrAbsent(t) ==
    IF IsDigit(Strip(t)) THEN <<IntValue(Strip(t)[1])>> ELSE <<>>

\* The tick is converted and every string column stripped; the event type
\* is a name without whitespace
normalize_row(r) ==
    [k \in DOMAIN r |->
        IF k = "tick" THEN TickOrAbsent(r[k])
        ELSE IF k = "eventtype" THEN r[k]
        ELSE Strip(r[k])]

-----------------------------------------------------------------------------
(* parse_in_out.py *)

IN_OUT_EVENT_MAP ==
    [k \in {"EVT_TASK_SWITCHED_IN", "EVT_TASK_SWITCHED_OUT", SWITCHED_IN, SWITCHED_OUT} |->
        IF k \in {"EVT_TASK_SWITCHED_IN", SWITCHED_IN} THEN SWITCHED_IN ELSE SWITCHED_OUT]

\* EVENT_RE.search (re.IGNORECASE): the position of the first word that is
\* one of the four spellings in some case, 0 when there is none
EVENT_RE(s) ==
    LET hits == {p \in DOMAIN s :
                    \E k \in DOMAIN IN_OUT_EVENT_MAP : UpperWord(s[p]) = UpperWord(k)}
    IN  IF hits = {} THEN 0 ELSE MinOf(hits)

\* <<kind>>, or <<>> for None
find_event(s) ==
    LET m == EVENT_RE(s) IN
    IF m = 0 THEN <<>>
    ELSE <<IN_OUT_EVENT_MAP[CHOOSE k \in DOMAIN IN_OUT_EVENT_MAP :
                                UpperWord(s[m]) = UpperWord(k)]>>

LowerKey(pair) == <<LowerWord(pair[1]), pair[2]>>

\* extract_kv of parse_in_out.py: {k.lower(): v for k, v in KV_RE.findall(line)}
extract_kv_lower(s) ==
    LET pairs == KvFindall(s, 1)
    IN  DictOf([n \in DOMAIN pairs |-> LowerKey(pairs[n])])

best_tick(s, kv) == TickHeuristic(s, kv, TRUE)

best_taskid(s, kv) ==
    IF DictHas(kv, "taskid") THEN DictGet(kv, "taskid")
    ELSE IF DictHas(kv, "task") THEN DictGet(kv, "task")
    ELSE IF DictHas(kv, "task_name") THEN DictGet(kv, "task_name")
    ELSE LET m == EVENT_RE(s)
             after == IF m = 0 THEN <<>>
                      ELSE NonNumeric(Tokens(SubSeq(s, m + 1, Len(s))))
             non_num == NonNumeric(Tokens(s))
         IN  IF after # <<>> THEN <<after[1]>>
             ELSE IF non_num # <<>> THEN <<non_num[Len(non_num)]>>
             ELSE <<>>

\* parse_line of parse_in_out.py: <<row>>, or <<>> for None
parse_line_in_out(s) ==
    LET evt == find_event(s)
        kv == extract_kv_lower(s)
    IN  IF evt = <<>> THEN <<>>
        ELSE <<[eventtype |-> evt[1],
                tick      |-> best_tick(s, kv),
                taskid    |-> best_taskid(s, kv),
                timestamp |-> DictGetOr(kv, "timestamp"),
                object    |-> DictGetOr(kv, "object"),
                value     |-> DictGetOr(kv, "value"),
                src       |-> DictGetOr(kv, "src"),
                raw_line  |-> RStripNewline(s)]>>

-----------------------------------------------------------------------------
(* main() of the parsers, on one line of the log *)

Parsers == {"parse_trace_log", "parse_in_out"}

vizVars == <<rows, xmin_arg, xmax_arg, df, xmin, xmax, i, cpuVars, lifeVars, blockVars>>

\* for ln in fin: if not ln.strip(): continue
ReadLine ==
    /\ pc = "read"
    /\ pc' = IF Strip(line) = <<>> THEN "skipped" ELSE "parse"
    /\ UNCHANGED <<callVars, script, parseVars, vizVars>>

\* parse_line that hands back the row of an earlier line when it finds no
\* event in this one
ParseLineRemembers ==
    /\ pc = "parse"
    /\ LET r == IF script = "parse_in_out" THEN parse_line_in_out(line) ELSE parse_line(line)
       IN  row' = IF r = <<>> THEN row ELSE r
    /\ pc' = IF row' = <<>> THEN "dropped" ELSE "normalize"
    /\ UNCHANGED <<callVars, script, line, fields, out, file, events, vizVars>>

\* row = parse_line(ln); if row is None: continue
ParseLine ==
    /\ pc = "parse"
    /\ row' = IF script = "parse_in_out" THEN parse_line_in_out(line) ELSE parse_line(line)
    /\ pc' = IF row' = <<>> THEN "dropped" ELSE "normalize"
    /\ UNCHANGED <<callVars, script, line, fields, out, file, events, vizVars>>

\* row = normalize_row(row)
NormalizeRow ==
    /\ pc = "normalize"
    /\ out' = <<normalize_row(row[1])>>
    /\ pc' = "write"
    /\ UNCHANGED <<callVars, script, line, fields, row, file, events, vizVars>>

\* writer.writerow(row); parse_trace_log.py first drops the rows of the
\* filtered task ids
WriteRow ==
    /\ pc = "write"
    /\ pc' = IF script = "parse_trace_log" /\ Lower(out[1].taskid) \in FILTER_TASKIDS
             THEN "filtered" ELSE "written"
    /\ UNCHANGED <<callVars, script, parseVars, vizVars>>

\* The loop of main() goes on to the next line of the file, or ends; i lines
\* are done, and row keeps its value until parse_line is called again
NextLine ==
    /\ pc \in {"skipped", "dropped", "written", "filtered"}
    /\ events' = Append(events, IF pc \in {"written", "filtered"} THEN out ELSE <<>>)
    /\ i' = i + 1
    /\ IF i + 1 < Len(file)
       THEN /\ line' = file[i + 2]
            /\ pc' = "read"
       ELSE /\ pc' = "eof"
            /\ UNCHANGED line
    /\ UNCHANGED <<callVars, script, fields, row, out, file, rows, xmin_arg, xmax_arg, df,
                   xmin, xmax, cpuVars, lifeVars, blockVars>>

-----------------------------------------------------------------------------
(* main() of visualize_interactive.py called more than once in one process: *)
(* X_MIN and X_MAX are names of the module, written by main() and read by   *)
(* build_cpu_timeline                                                       *)

CallIds == {1, 2}

\* The variables of the model of a single call
oneCallVars ==
    <<script, parseVars, rows, xmin_arg, xmax_arg, df, xmin, xmax, pc, i,
      cpuVars, lifeVars, blockVars>>

\* ap.add_argument("--xmin", type=int, default=X_MIN, ...) and parse_args():
\* the default is the value the module's X_MIN has when main() is entered
MainParseArgs(c) ==
    /\ calls[c].pc = "main"
    /\ calls' = [calls EXCEPT
                    ![c].xmin = IF calls[c].xmin_arg = <<>> THEN globals.X_MIN
                                ELSE calls[c].xmin_arg[1],
                    ![c].xmax = IF calls[c].xmax_arg = <<>> THEN globals.X_MAX
                                ELSE calls[c].xmax_arg[1],
                    ![c].pc = "args"]
    /\ UNCHANGED <<globals, oneCallVars>>

\* globals()["X_MIN"] = int(args.xmin); globals()["X_MAX"] = int(args.xmax)
MainSetGlobals(c) ==
    /\ calls[c].pc = "args"
    /\ globals' = [X_MIN |-> calls[c].xmin, X_MAX |-> calls[c].xmax]
    /\ calls' = [calls EXCEPT ![c].pc = "load"]
    /\ UNCHANGED oneCallVars

\* df = load_csv(args.csv)
MainLoadCsv(c) ==
    /\ calls[c].pc = "load"
    /\ \E d \in SortValues([k \in DOMAIN calls[c].rows |-> NormalizeColumns(calls[c].rows[k])],
                            "visualize_interactive") :
          calls' = [calls EXCEPT ![c].df = d, ![c].pc = "cpu_begin"]
    /\ UNCHANGED <<globals, oneCallVars>>

\* build_cpu_timeline: current = "IDLE"; start = X_MIN
MainCpuBegin(c) ==
    /\ calls[c].pc = "cpu_begin"
    /\ calls' = [calls EXCEPT ![c].current = IDLE, ![c].start = globals.X_MIN,
                              ![c].timeline = <<>>, ![c].i = 0, ![c].pc = "cpu"]
    /\ UNCHANGED <<globals, oneCallVars>>

\* build_cpu_timeline: one row of the loop
MainCpuStep(c) ==
    /\ calls[c].pc = "cpu"
    /\ calls[c].i < Len(calls[c].df)
    /\ LET n == CpuIter(calls[c].df[calls[c].i + 1],
                        [current |-> calls[c].current, start |-> calls[c].start,
                         timeline |-> calls[c].timeline])
       IN  calls' = [calls EXCEPT ![c].current = n.current, ![c].start = n.start,
                                  ![c].timeline = n.timeline, ![c].i = @ + 1]
    /\ UNCHANGED <<globals, oneCallVars>>

\* build_cpu_timeline: segments.append((current, start, X_MAX)) and the
\* two filters
MainCpuFinish(c) ==
    /\ calls[c].pc = "cpu"
    /\ calls[c].i = Len(calls[c].df)
    /\ LET tl == Append(calls[c].timeline, <<calls[c].current, calls[c].start, globals.X_MAX>>)
       IN  calls' = [calls EXCEPT ![c].timeline = tl,
                                  ![c].cpu_df = CpuReturned(tl, "visualize_interactive"),
                                  ![c].pc = "done"]
    /\ UNCHANGED <<globals, oneCallVars>>

-----------------------------------------------------------------------------
(* Specifications: one per reconstructor, each behind load_csv; one for    *)
(* load_csv alone; one for the parsers                                     *)

\* The locals of the visualizers before they run
\* One call of main() in a fresh process: the module constants as written
NoCalls ==
    /\ globals = [X_MIN |-> X_MIN, X_MAX |-> X_MAX]
    /\ calls = <<>>

InitLocals ==
    /\ df = <<>>
    /\ xmin = 0
    /\ xmax = 0
    /\ i = 0
    /\ current = IDLE
    /\ start = 0
    /\ timeline = <<>>
    /\ cpu_out = <<>>
    /\ creates = <<>>
    /\ deletes = <<>>
    /\ delete_edges = <<>>
    /\ life_out = <<>>
    /\ last_blocking_api = <<>>
    /\ open_block = <<>>
    /\ blocking = <<>>

InitCommon ==
    /\ line = <<>>
    /\ fields = <<>>
    /\ row = <<>>
    /\ out = <<>>
    /\ file = <<>>
    /\ events = <<>>
    /\ pc = "load"
    /\ InitLocals
    /\ NoCalls

\* Rows s with their 1-based file position
WithOrd(s) ==
    [k \in DOMAIN s |->
        [eventtype |-> s[k].eventtype, tick |-> s[k].tick,
         taskid |-> s[k].taskid, object |-> s[k].object, ord |-> k]]

TickCells == {<<t>> : t \in 0..MaxTick}

CsvRows(kinds, tasks, objects) ==
    [eventtype : kinds, tick : TickCells, taskid : tasks, object : objects]

\* A task is switched in and out, the excluded Flush is switched in, and one
\* event the CPU reconstructor ignores
CpuRows ==
    CsvRows({SWITCHED_IN, SWITCHED_OUT, "EVT_QUEUE_SEND"}, {"T1"}, {None})
        \cup CsvRows({SWITCHED_IN}, {"Flush"}, {None})

InitCpu ==
    /\ InitCommon
    /\ script \in {"visualize_pro", "visualize_interactive"}
    /\ xmin_arg \in {<<>>, <<1>>, <<MaxTick + XMargin>>}
    /\ xmax_arg \in {<<>>, <<1>>}
    /\ \E s \in SeqsUpTo(CpuRows, MaxRows) : rows = WithOrd(s)

NextCpu == LoadCsv \/ InferXrange \/ CpuBegin \/ CpuStep \/ CpuFinish

SpecCpu == InitCpu /\ [][NextCpu]_vars

\* Main creates and deletes a worker and esp_timer, which only
\* visualize_pro.py excludes, and deletes Flush, which every script excludes
LifeRows ==
    CsvRows({TASK_CREATE, TASK_DELETE}, {"Main"}, {"W1", "esp_timer"})
        \cup CsvRows({TASK_DELETE}, {"Main"}, {"Flush"})

InitLife ==
    /\ InitCommon
    /\ script \in Scripts
    /\ xmin_arg = <<>>
    /\ xmax_arg = <<>>
    /\ \E s \in SeqsUpTo(LifeRows, MaxRows) : rows = WithOrd(s)

NextLife == LoadCsv \/ InferXrange \/ LifeBegin \/ LifeStep \/ LifeFinish

SpecLife == InitLife /\ [][NextLife]_vars

\* T1 calls a queue and a delay API and is switched out and in; T2 calls the
\* queue API, and a send of T2 fails
BlockRows ==
    CsvRows({SWITCHED_IN, SWITCHED_OUT, "EVT_QUEUE_RECEIVE", "EVT_TASK_DELAY"},
            {"T1"}, {None})
        \cup CsvRows({"EVT_QUEUE_RECEIVE", "EVT_QUEUE_SEND_FAILED"}, {"T2"}, {None})

InitBlock ==
    /\ InitCommon
    /\ script \in {"visualize_pro", "visualize_interactive"}
    /\ xmin_arg = <<>>
    /\ xmax_arg = <<>>
    /\ \E s \in SeqsUpTo(BlockRows, MaxRows) : rows = WithOrd(s)

NextBlock == LoadCsv \/ InferXrange \/ BlockBegin \/ BlockStep \/ BlockFinish

SpecBlock == InitBlock /\ [][NextBlock]_vars

\* extract_blocking of visualize_pro.py on longer streams: T1 calls the
\* delay API and the queue API, a receive of T1 fails, and T1 is switched
\* out and in, at the first or the last tick; T2 receives from a queue
CallRows ==
    {r \in CsvRows({SWITCHED_IN, SWITCHED_OUT, "EVT_TASK_DELAY", "EVT_QUEUE_RECEIVE",
                    "EVT_QUEUE_RECEIVE_FAILED"}, {"T1"}, {None})
             \cup CsvRows({"EVT_QUEUE_RECEIVE"}, {"T2"}, {None}) :
        r.tick \in {<<0>>, <<MaxTick>>}}

InitCalls ==
    /\ InitCommon
    /\ script = "visualize_pro"
    /\ xmin_arg = <<>>
    /\ xmax_arg = <<>>
    /\ \E s \in SeqsUpTo(CallRows, MaxRows + 1) : rows = WithOrd(s)

SpecCalls == InitCalls /\ [][NextBlock]_vars

\* Two calls of main() of visualize_interactive.py in one process, one after
\* the other or interleaved: each has its own trace of at most one row and
\* its own --xmin and --xmax
TraceRows == CsvRows({SWITCHED_IN}, {"T1"}, {None})

NewCall(r, lo_arg, hi_arg) ==
    [rows |-> r, xmin_arg |-> lo_arg, xmax_arg |-> hi_arg, pc |-> "main",
     xmin |-> 0, xmax |-> 0, df |-> <<>>, i |-> 0, current |-> IDLE, start |-> 0,
     timeline |-> <<>>, cpu_df |-> <<>>]

NewCalls ==
    {NewCall(WithOrd(s), lo_arg, hi_arg) :
        s \in SeqsUpTo(TraceRows, 1), lo_arg \in {<<>>, <<1>>},
        hi_arg \in {<<>>, <<MaxTick + 1>>}}

InitTwoCalls ==
    /\ InitLocals
    /\ line = <<>>
    /\ fields = <<>>
    /\ row = <<>>
    /\ out = <<>>
    /\ file = <<>>
    /\ events = <<>>
    /\ rows = <<>>
    /\ xmin_arg = <<>>
    /\ xmax_arg = <<>>
    /\ script = "visualize_interactive"
    /\ pc = "main"
    /\ globals = [X_MIN |-> X_MIN, X_MAX |-> X_MAX]
    /\ calls \in [CallIds -> NewCalls]

NextTwoCalls ==
    \E c \in CallIds :
        \/ MainParseArgs(c)
        \/ MainSetGlobals(c)
        \/ MainLoadCsv(c)
        \/ MainCpuBegin(c)
        \/ MainCpuStep(c)
        \/ MainCpuFinish(c)

SpecTwoCalls == InitTwoCalls /\ [][NextTwoCalls]_vars

\* main() of visualize_pro.py: build_cpu_timeline and extract_blocking read
\* the same df_sorted and the same bounds; T1 is switched in and out and
\* receives from a queue, and the bounds are given or not
ViewRows == CsvRows({SWITCHED_IN, SWITCHED_OUT, "EVT_QUEUE_RECEIVE"}, {"T1"}, {None})

InitViews ==
    /\ InitCommon
    /\ script = "visualize_pro"
    /\ xmin_arg \in {<<>>, <<1>>, <<MaxTick + XMargin>>}
    /\ xmax_arg \in {<<>>, <<1>>}
    /\ \E s \in SeqsUpTo(ViewRows, MaxRows) : rows = WithOrd(s)

NextViews ==
    \/ LoadCsv
    \/ InferXrange
    \/ CpuBegin
    \/ CpuStep
    \/ CpuFinish
    \/ BlockBegin
    \/ BlockStep
    \/ BlockFinish

SpecViews == InitViews /\ [][NextViews]_vars

\* load_csv alone, under the three scripts whose load_csv the ordering of the
\* stream is stated for; a tick cell may be empty and so may a taskid cell
LoadScripts == {"visualize_pro", "viz_3", "visualize_interactive"}

LoadRows ==
    [eventtype : {SWITCHED_IN, SWITCHED_OUT}, tick : TickCells \cup {<<>>},
     taskid : {"T1", None}, object : {None}]

InitLoad ==
    /\ InitCommon
    /\ script \in LoadScripts
    /\ xmin_arg = <<>>
    /\ xmax_arg = <<>>
    /\ \E s \in SeqsUpTo(LoadRows, MaxRows) : rows = WithOrd(s)

NextLoad == LoadCsv \/ InferXrange

SpecLoad == InitLoad /\ [][NextLoad]_vars

\* load_data of visualize.py on the same files
InitData ==
    /\ InitCommon
    /\ script = "visualize"
    /\ xmin_arg = <<>>
    /\ xmax_arg = <<>>
    /\ \E s \in SeqsUpTo(LoadRows, MaxRows) : rows = WithOrd(s)

SpecData == InitData /\ [][LoadData]_vars

\* The fields a structured line is written from: a recognized spelling, bare
\* or padded, or none; a tick that is a number, not a number, blank or
\* missing; a value that holds a keyword or a key=value pair; a src that
\* holds a comma
EventFields ==
    {<<"EVT_TASK_CREATE">>, <<"EVT_TASK_SWITCHED_IN">>,
     <<Space, "traceTASK_SWITCHED_OUT", Space>>, <<"foo">>, <<Space>>}
TickFields == {<<"12">>, <<Space, "007">>, <<"abc">>, <<Space>>, <<>>}
TimestampFields == {<<>>, <<"ts">>}
TaskFields == {<<>>, <<"T1">>, <<Space, "Flush", Space>>}
ObjectFields == {<<>>, <<"W1">>}
ValueFields == {<<>>, <<"EVT_QUEUE_SEND">>, <<"tick", "=", "12">>}
SrcFields == {<<>>, <<"s", Space>>, <<"s", ",", "ts">>}

FieldTuples ==
    EventFields \X TickFields \X TimestampFields \X TaskFields
        \X ObjectFields \X ValueFields \X SrcFields

RECURSIVE JoinFields(_)
JoinFields(f) ==
    IF Len(f) = 1 THEN f[1]
    ELSE JoinFields(SubSeq(f, 1, Len(f) - 1)) \o <<",">> \o f[Len(f)]

\* The lexemes of a free-text line
FreeLexemes ==
    {"EVT_TASK_CREATE", "traceTASK_SWITCHED_OUT", "tracetask_switched_out",
     "EVT_TASK_CREATED", "tick", "T1", "12", ",", Space, "="}

\* A text is cut into maximal words: no two words are adjacent
IsText(s) == \A k \in 1..(Len(s) - 1) : ~(IsWord(s[k]) /\ IsWord(s[k + 1]))

FreeTexts == {s \in SeqsUpTo(FreeLexemes, MaxLex) : IsText(s)}

\* A line of the file ends with a newline, the last one possibly not
InitParse ==
    /\ InitLocals
    /\ NoCalls
    /\ rows = <<>>
    /\ xmin_arg = <<>>
    /\ xmax_arg = <<>>
    /\ script \in Parsers
    /\ pc = "read"
    /\ row = <<>>
    /\ out = <<>>
    /\ events = <<>>
    /\ \E end \in {<<>>, <<Newline>>} :
          \/ /\ fields \in FieldTuples
             /\ line = JoinFields(fields) \o end
          \/ /\ fields = <<>>
             /\ line \in {s \o end : s \in FreeTexts}
    /\ file = <<line>>

NextParse == ReadLine \/ ParseLine \/ NormalizeRow \/ WriteRow

SpecParse == InitParse /\ [][NextParse]_vars

\* Free-text lines that hold numbers, bare, after the word tick or in
\* brackets
TickLexemes == {"EVT_TASK_SWITCHED_IN", "tick", "12", "007", "[", "]", "=", Space}

TickTexts == {s \in SeqsUpTo(TickLexemes, MaxLex + 1) : IsText(s)}

InitTick ==
    /\ InitLocals
    /\ NoCalls
    /\ rows = <<>>
    /\ xmin_arg = <<>>
    /\ xmax_arg = <<>>
    /\ script \in Parsers
    /\ pc = "read"
    /\ row = <<>>
    /\ out = <<>>
    /\ events = <<>>
    /\ fields = <<>>
    /\ line \in TickTexts
    /\ file = <<line>>

SpecTick == InitTick /\ [][NextParse]_vars

\* A log of up to MaxLines lines: a free-text switch line, a structured
\* line, a line with no keyword, a blank line, a line with a key=value tick,
\* a structured line of the filtered task
FileLines ==
    {<<"traceTASK_SWITCHED_OUT", Space, "12", Space, "T1", Newline>>,
     <<"EVT_TASK_CREATE", ",", "12", ",", "ts", ",", "T1", ",", "W1", ",", ",", "s", Newline>>,
     <<"foo", Space, "12", Newline>>,
     <<Newline>>,
     <<"EVT_TASK_CREATE", ",", Space, "tick", "=", "007", Newline>>,
     <<"EVT_TASK_SWITCHED_IN", ",", "12", ",", ",", "Flush", ",", ",", ",", Newline>>}

InitFile ==
    /\ InitLocals
    /\ NoCalls
    /\ rows = <<>>
    /\ xmin_arg = <<>>
    /\ xmax_arg = <<>>
    /\ script \in Parsers
    /\ pc = "read"
    /\ row = <<>>
    /\ out = <<>>
    /\ events = <<>>
    /\ fields = <<>>
    /\ file \in SeqsUpTo(FileLines, MaxLines) \ {<<>>}
    /\ line = file[1]

NextFile == ReadLine \/ ParseLine \/ NormalizeRow \/ WriteRow \/ NextLine

SpecFile == InitFile /\ [][NextFile]_vars

-----------------------------------------------------------------------------
(* CPU timeline: tiling *)

\* The segments of tl, laid end to end, go from lo to hi
Chain(tl, lo, hi) ==
    /\ Len(tl) >= 1
    /\ tl[1][2] = lo
    /\ tl[Len(tl)][3] = hi
    /\ \A k \in 1..(Len(tl) - 1) : tl[k + 1][2] = tl[k][3]

SwitchesInExcluded ==
    \E k \in DOMAIN df :
        /\ df[k].eventtype = SWITCHED_IN
        /\ df[k].taskid \in EXCLUDE_CPU_TASKS(script)

BoundsEncloseTicks == xmin <= DMin(df) /\ DMax(df) <= xmax

\* C1 as stated: the segments build_cpu_timeline returns go end to end from
\* xmin to xmax, whatever the stream, a stream with Flush included.
C1_ReturnedTiles ==
    (pc = "cpu_done" /\ script = "visualize_pro") => Chain(cpu_out, xmin, xmax)

\* C1: the segments build_cpu_timeline appends go end to end from xmin to
\* xmax for every stream and every bounds; the returned list is that chain
\* when no excluded task is switched in (in visualize_interactive.py, which
\* also drops segments with End <= Start, when moreover the bounds enclose
\* the ticks and xmin < xmax); and no segment runs backwards when the bounds
\* enclose the ticks.
C1_Tiling ==
    /\ pc = "cpu" =>
          IF timeline = <<>> THEN start = xmin ELSE Chain(timeline, xmin, start)
    /\ pc = "cpu_done" =>
          /\ Chain(timeline, xmin, xmax)
          /\ (script # "visualize_interactive" /\ ~SwitchesInExcluded)
                => cpu_out = timeline
          /\ (script = "visualize_interactive" /\ ~SwitchesInExcluded
                 /\ BoundsEncloseTicks /\ xmin < xmax)
                => Chain(cpu_out, xmin, xmax)
          /\ BoundsEncloseTicks =>
                \A k \in DOMAIN timeline : timeline[k][2] <= timeline[k][3]

\* A stream that starts with a switch-out nothing preceded, three switch
\* events in all, returned as four segments that tile [xmin, xmax]
C1_Witness ==
    /\ pc = "cpu_done"
    /\ script = "visualize_pro"
    /\ Len(df) = 3
    /\ df[1].eventtype = SWITCHED_OUT
    /\ Len(cpu_out) = 4
    /\ Chain(cpu_out, xmin, xmax)

-----------------------------------------------------------------------------
(* Lifecycle *)

CreateRows(obj) ==
    {k \in DOMAIN df : df[k].eventtype = TASK_CREATE /\ df[k].object = obj}

DeleteRows(obj) ==
    {k \in DOMAIN df : df[k].eventtype = TASK_DELETE /\ df[k].object = obj}

CreatedObjects == {df[k].object : k \in {n \in DOMAIN df : df[n].eventtype = TASK_CREATE}}

FirstCreateTick(obj) == df[MinOf(CreateRows(obj))].tick

LastDeleteTick(obj) == df[MaxOf(DeleteRows(obj))].tick

\* C2 as stated: the start of every lifecycle segment is the tick of the
\* first TaskCreate of its object in stream order.
C2_FirstCreateWins ==
    pc = "life_done" =>
        \A n \in DOMAIN life_out : life_out[n][2] = FirstCreateTick(life_out[n][1])

\* C3: last delete wins. During the pass deletes[obj] is the tick of the last
\* TaskDelete of obj consumed so far, and the end of the segment of an object
\* with a TaskDelete is the tick of its last TaskDelete in stream order, also
\* when a delete precedes the create (extract_lifecycle of visualize_pro.py
\* and of the scripts that share its loop).
C3_LastDeleteWins ==
    /\ pc = "life" =>
          \A n \in DOMAIN deletes :
              LET seen == {k \in DeleteRows(deletes[n][1]) : k <= i}
              IN  seen # {} /\ deletes[n][2] = df[MaxOf(seen)].tick
    /\ (pc = "life_done" /\ script # "visualize_interactive") =>
          \A n \in DOMAIN life_out :
              DeleteRows(life_out[n][1]) # {}
                  => life_out[n][3] = LastDeleteTick(life_out[n][1])

\* W1 is deleted, created, and deleted again at a later tick: its segment
\* ends at the second delete
C3_Witness ==
    /\ pc = "life_done"
    /\ script = "visualize_pro"
    /\ Len(df) = 3
    /\ df[1].eventtype = TASK_DELETE /\ df[1].object = "W1"
    /\ df[2].eventtype = TASK_CREATE /\ df[2].object = "W1"
    /\ df[3].eventtype = TASK_DELETE /\ df[3].object = "W1"
    /\ df[3].tick > df[1].tick
    /\ life_out = <<<<"W1", df[2].tick, df[3].tick>>>>

\* The segments the rules of 4.4 give for the objects in objs
LifecycleOf(objs) ==
    /\ {life_out[n][1] : n \in DOMAIN life_out} = objs
    /\ Len(life_out) = Cardinality(objs)
    /\ \A n \in DOMAIN life_out :
          LET obj == life_out[n][1] IN
          /\ life_out[n][2] = FirstCreateTick(obj)
          /\ life_out[n][3] = IF DeleteRows(obj) # {} THEN LastDeleteTick(obj) ELSE xmax

\* C6 as stated: one segment for every object with a TaskCreate.
C6_OnePerCreatedObject ==
    (pc = "life_done" /\ script # "visualize_interactive") => LifecycleOf(CreatedObjects)

\* C6: extract_lifecycle returns exactly one segment for every object that
\* has a TaskCreate and is not in the script's exclusion set, equal to
\* (object, created[object], deleted[object]) when the object has a delete
\* and to (object, created[object], xmax) otherwise.
C6_OnePerKeptObject ==
    (pc = "life_done" /\ script # "visualize_interactive") =>
        LifecycleOf(CreatedObjects \ EXCLUDE_LIFECYCLE_TASKS(script))

\* W1 is created and later deleted, esp_timer is created: one segment, W1's
C6_Witness ==
    /\ pc = "life_done"
    /\ script = "visualize_pro"
    /\ CreatedObjects = {"W1", "esp_timer"}
    /\ life_out = <<<<"W1", 0, 2>>>>

IsDelete(r) == r.eventtype = TASK_DELETE

EdgeOf(r) == <<r.tick, r.taskid, r.object>>

EdgesOf(s) == [n \in DOMAIN s |-> EdgeOf(s[n])]

-----------------------------------------------------------------------------
(* Blocking *)

IsBlockingCall(r) == r.eventtype \in QueueEvents \cup DelayEvents

KindOf(r) == IF r.eventtype \in QueueEvents THEN "QUEUE" ELSE "DELAY"

BlockKept(k) == df[k].taskid \notin EXCLUDE_BLOCK_TASKS(script)

IsOutOf(k, task) == df[k].eventtype = SWITCHED_OUT /\ df[k].taskid = task

IsInOf(k, task) == df[k].eventtype = SWITCHED_IN /\ df[k].taskid = task

\* Row j is the last blocking API call of the task of row k that precedes k in the
\* stream and that no switch-out of the task has consumed before k
UnconsumedCallBefore(j, k) ==
    /\ j < k
    /\ IsBlockingCall(df[j])
    /\ df[j].taskid = df[k].taskid
    /\ \A m \in (j + 1)..(k - 1) :
          ~IsOutOf(m, df[k].taskid) /\ ~(IsBlockingCall(df[m]) /\ df[m].taskid = df[k].taskid)

\* Row k is a switch-out that consumes a call classified as kind
ClassifiedOut(k, kind) ==
    /\ BlockKept(k)
    /\ df[k].eventtype = SWITCHED_OUT
    /\ \E j \in 1..(k - 1) : UnconsumedCallBefore(j, k) /\ KindOf(df[j]) = kind

\* Row k opened a block of task that no switch-in closed up to row n
OpenedBy(k, task, kind, n) ==
    /\ k <= n
    /\ df[k].taskid = task
    /\ ClassifiedOut(k, kind)
    /\ \A m \in (k + 1)..n : ~IsInOf(m, task)

\* C4: every open block and every blocking segment comes from a switch-out
\* that a blocking API call of the same task precedes in stream order with no
\* other switch-out of the task between them, and every segment is closed by
\* a switch-in of the task while that block was open; so a switch-out with
\* no preceding unconsumed call, or a switch-in with no open block, gives no
\* segment, and a stream whose only call follows the switch-out gives none.
C4_NoUnclassifiedSegments ==
    pc \in {"block", "block_done"} =>
        /\ \A n \in DOMAIN open_block :
              \E k \in 1..i :
                  /\ OpenedBy(k, open_block[n][1], open_block[n][2][1], i)
                  /\ open_block[n][2][2] = df[k].tick
        /\ \A n \in DOMAIN blocking :
              \E k \in 1..i : \E m \in (k + 1)..i :
                  /\ OpenedBy(k, blocking[n][1], blocking[n][2], m - 1)
                  /\ IsInOf(m, blocking[n][1])
                  /\ blocking[n][3] = df[k].tick
                  /\ blocking[n][4] = df[m].tick
        /\ Len(blocking) <=
              Cardinality({k \in 1..i : \E kind \in {"QUEUE", "DELAY"} : ClassifiedOut(k, kind)})

\* Scenario B: switch-out, then the queue receive at the same tick, then the
\* switch-in: no segment
C4_Witness ==
    /\ pc = "block_done"
    /\ script = "visualize_pro"
    /\ Len(df) = 3
    /\ df[1].eventtype = SWITCHED_OUT /\ df[1].taskid = "T1" /\ df[1].tick = 1
    /\ df[2].eventtype = "EVT_QUEUE_RECEIVE" /\ df[2].taskid = "T1" /\ df[2].tick = 1
    /\ df[3].eventtype = SWITCHED_IN /\ df[3].taskid = "T1" /\ df[3].tick = 2
    /\ blocking = <<>>
    /\ open_block = <<>>

\* The loop of extract_blocking is at a switch-in of a task with an open block
AtSwitchInOfOpenBlock ==
    /\ pc = "block"
    /\ i < Len(df)
    /\ BlockKept(i + 1)
    /\ df[i + 1].eventtype = SWITCHED_IN
    /\ DictHas(open_block, df[i + 1].taskid)

\* C5: a switch-in at tick t of a task whose open block is (classification,
\* start) removes the open block and emits exactly the one segment
\* (task, start, t) under that classification.
C5_SwitchInClosesOpenBlock ==
    [][AtSwitchInOfOpenBlock =>
          LET task == df[i + 1].taskid
              ob == DictGet(open_block, task)
          IN  /\ open_block' = DictDel(open_block, task)
              /\ blocking' = Append(blocking, <<task, ob[1], ob[2], df[i + 1].tick>>)]_vars

-----------------------------------------------------------------------------
(* Stream ordering *)

\* df holds every normalized row of the file exactly once
IsPermutationOfRows ==
    /\ Len(df) = Len(rows)
    /\ {df[k].ord : k \in DOMAIN df} = DOMAIN rows
    /\ \A k \in DOMAIN df : df[k] = NormalizeColumns(rows[df[k].ord])

\* Rows of equal tick are in file order
TiesInFileOrder ==
    \A a, b \in DOMAIN df :
        (a < b /\ df[a].tick = df[b].tick) => df[a].ord < df[b].ord

\* C8: the sequence load_csv hands to the reconstructors is a permutation of
\* the normalized rows, sorted by tick ascending, and two rows of equal tick
\* are in their original file order.
C8_StableStreamOrder ==
    pc # "load" => IsPermutationOfRows /\ IsSortedByTick(df) /\ TiesInFileOrder

-----------------------------------------------------------------------------
(* Parsers *)

\* parse_line has returned
Parsed == pc \in {"dropped", "normalize", "write", "written", "filtered"}

\* normalize_row has returned, or parse_line has returned None
Settled == pc \in {"dropped", "write", "written", "filtered"}

\* The kinds of section 3: the values of EVENT_MAP
EventKinds == {EVENT_MAP[k] : k \in DOMAIN EVENT_MAP}

\* A word of the line is a recognized spelling, in whatever case
HoldsKeywordInSomeCase ==
    \E p \in DOMAIN line : \E k \in DOMAIN EVENT_MAP : UpperWord(line[p]) = UpperWord(k)

\* A word of the line is a spelling the running parser recognizes:
\* parse_trace_log.py the eighteen keys as written, parse_in_out.py the four
\* switch spellings in any case
HoldsKeyword ==
    IF script = "parse_in_out"
    THEN \E p \in DOMAIN line : \E k \in DOMAIN IN_OUT_EVENT_MAP :
            UpperWord(line[p]) = UpperWord(k)
    ELSE \E p \in DOMAIN line : line[p] \in DOMAIN EVENT_MAP

\* C9: a line that holds none of the recognized event keywords gives no
\* event: parse_line returns None exactly when no word of the line is a
\* keyword of the parser, and the kind of every event it returns, and of
\* every row written, is one of the enumerated kinds.
C9_UnrecognizedGiveNoEvent ==
    Parsed =>
        /\ ~HoldsKeywordInSomeCase => row = <<>>
        /\ row = <<>> <=> ~HoldsKeyword
        /\ row # <<>> => row[1].eventtype \in EventKinds
        /\ pc \in {"write", "written", "filtered"} => out[1].eventtype \in EventKinds

\* A structured line whose first field is no keyword, with none elsewhere,
\* is dropped by parse_trace_log.py
C9_Witness ==
    /\ pc = "dropped"
    /\ script = "parse_trace_log"
    /\ fields # <<>>
    /\ CSV_LIKE_RE(line)
    /\ Strip(fields[1]) = <<"foo">>
    /\ Strip(fields[4]) = <<"T1">>
    /\ ~HoldsKeywordInSomeCase
    /\ row = <<>>

\* The line was written from seven fields and its first field, trimmed, is
\* a recognized raw spelling
StructuredLine ==
    /\ fields # <<>>
    /\ Len(Strip(fields[1])) = 1
    /\ Strip(fields[1])[1] \in DOMAIN EVENT_MAP

FirstFieldKey == Strip(fields[1])[1]

\* Column name of the row written equals field n, trimmed
ColumnIsField(name, n) == out[1][name] = Strip(fields[n])

\* The tick written is the number field 2 spells
TickIsField == out[1].tick # <<>> /\ IsDigit(Strip(fields[2]))
                  /\ out[1].tick[1] = IntValue(Strip(fields[2])[1])

NoColumnFromFields ==
    /\ out[1].timestamp = <<>>
    /\ out[1].object = <<>>
    /\ out[1].value = <<>>
    /\ out[1].src = <<>>

-----------------------------------------------------------------------------
(* Normalizer: determinism *)

-----------------------------------------------------------------------------
(* Free-text taskid heuristic *)

\* The word is a spelling the running parser recognizes
IsKeywordOfParser(w) ==
    IF script = "parse_in_out"
    THEN \E k \in DOMAIN IN_OUT_EVENT_MAP : UpperWord(w) = UpperWord(k)
    ELSE w \in DOMAIN EVENT_MAP

\* The first keyword of the line, <<>> when it has none
EventKeyword ==
    LET words == SelectSeq(line, IsKeywordOfParser)
    IN  IF words = <<>> THEN <<>> ELSE <<words[1]>>

\* The rule of section 4.1 (b): the words of the line without the numbers
\* and without the event keyword when it comes first; the last one, or ''
LastRemainingToken ==
    LET tokens == NonNumeric(Tokens(line))
        rest == IF tokens # <<>> /\ EventKeyword = <<tokens[1]>> THEN Tail(tokens) ELSE tokens
    IN  IF rest = <<>> THEN <<>> ELSE <<rest[Len(rest)]>>

\* The line has a taskid, task or task_name key
HasTaskKey ==
    \E n \in DOMAIN KvFindall(line, 1) :
        LowerWord(KvFindall(line, 1)[n][1]) \in {"taskid", "task", "task_name"}

\* The task id is not read from the fourth field of a structured line
TaskidIsGuessed ==
    \/ script = "parse_in_out"
    \/ extract_from_csv_like(line) = <<>>
    \/ extract_from_csv_like(line)[1].taskid = <<>>

\* C12: when the line has no taskid, task or task_name key, the task id the
\* heuristic gives is the last token that remains of the line's words once
\* the numbers, and the event keyword if it comes first, are discarded, and
\* '' when none remains.
C12_TaskidIsLastToken ==
    (Parsed /\ row # <<>> /\ TaskidIsGuessed /\ ~HasTaskKey) =>
        row[1].taskid = LastRemainingToken

-----------------------------------------------------------------------------
(* Task exclusion *)

\* C13: exclusion of tasks is a filter after reconstruction and no part of
\* normalization, so the event stream the reconstructors read is the full
\* one: every row the normalizer has parsed and normalized is written to
\* the stream, whatever its task id.
C13_NormalizerWritesEveryTask ==
    [][pc = "write" => pc' = "written"]_vars

-----------------------------------------------------------------------------
(* Zero-length segments *)

\* C14: a segment the transition rules yield with end equal to start is
\* returned unchanged by the reconstructor, neither dropped nor widened;
\* here for the CPU timeline: every zero-length segment of a task that is
\* not excluded is among the returned segments.
C14_ZeroLengthSegmentsReturned ==
    pc = "cpu_done" =>
        \A k \in DOMAIN timeline :
            (timeline[k][2] = timeline[k][3] /\ timeline[k][1] \notin EXCLUDE_CPU_TASKS(script)) =>
                \E m \in DOMAIN cpu_out : cpu_out[m] = timeline[k]

-----------------------------------------------------------------------------
(* Blocking classification *)

\* The eight queue kinds and the two delay kinds of section 4.5, as the
\* event stream spells them
QueueKinds ==
    {"EVT_QUEUE_SEND", "EVT_QUEUE_SEND_FAILED",
     "EVT_QUEUE_SEND_FROM_ISR", "EVT_QUEUE_SEND_FROM_ISR_FAILED",
     "EVT_QUEUE_RECEIVE", "EVT_QUEUE_RECEIVE_FAILED",
     "EVT_QUEUE_RECEIVE_FROM_ISR", "EVT_QUEUE_RECEIVE_FROM_ISR_FAILED"}

DelayKinds == {"EVT_TASK_DELAY", "EVT_TASK_DELAY_UNTIL"}

\* The step sets the classification of task to kind
SetsClassification(task, kind) ==
    /\ DictHas(last_blocking_api', task)
    /\ DictGet(last_blocking_api', task) = kind

\* The step sets no classification
SetsNoClassification ==
    \A n \in DOMAIN last_blocking_api' :
        /\ DictHas(last_blocking_api, last_blocking_api'[n][1])
        /\ DictGet(last_blocking_api, last_blocking_api'[n][1]) = last_blocking_api'[n][2]

\* C15: on the event of a task that is not excluded, each of the eight queue
\* kinds sets lastBlockingAPI[task] to QUEUE, each of the two delay kinds
\* sets it to DELAY, and an event of any other kind sets no classification.
C15_ClassificationMapping ==
    [][(pc = "block" /\ i < Len(df) /\ BlockKept(i + 1)) =>
          LET r == df[i + 1]
          IN  /\ r.eventtype \in QueueKinds => SetsClassification(r.taskid, "QUEUE")
              /\ r.eventtype \in DelayKinds => SetsClassification(r.taskid, "DELAY")
              /\ r.eventtype \notin QueueKinds \cup DelayKinds => SetsNoClassification]_vars

-----------------------------------------------------------------------------
(* Blocking: the most recent classification *)

\* The classification section 4.5 gives the blocking API call of row r
ClassOf(r) == IF r.eventtype \in QueueKinds THEN "QUEUE" ELSE "DELAY"

\* Row j is the last blocking API call of the task of row k before k, with
\* no switch-out of the task between them
LastCallBefore(j, k) ==
    /\ j < k
    /\ df[j].eventtype \in QueueKinds \cup DelayKinds
    /\ df[j].taskid = df[k].taskid
    /\ \A m \in (j + 1)..(k - 1) :
          df[m].taskid = df[k].taskid =>
              df[m].eventtype \notin QueueKinds \cup DelayKinds \cup {SWITCHED_OUT}

\* C16: the classification of every emitted blocking segment is that of the
\* last blocking API call of the task that precedes the opening switch-out
\* in stream order and follows the task's previous classified switch-out;
\* a later call replaces an earlier unconsumed one.
C16_LastCallClassifies ==
    pc \in {"block", "block_done"} =>
        \A n \in DOMAIN blocking :
            \E k \in 1..i : \E m \in (k + 1)..i : \E j \in 1..(k - 1) :
                /\ IsOutOf(k, blocking[n][1])
                /\ IsInOf(m, blocking[n][1])
                /\ \A q \in (k + 1)..(m - 1) : ~IsInOf(q, blocking[n][1])
                /\ blocking[n][3] = df[k].tick
                /\ blocking[n][4] = df[m].tick
                /\ LastCallBefore(j, k)
                /\ blocking[n][2] = ClassOf(df[j])

-----------------------------------------------------------------------------
(* CPU: the steps of the reconstructor *)

\* The reconstructor is about to read row i + 1, an event of one of kinds
CpuReads(kinds) == pc = "cpu" /\ i < Len(df) /\ df[i + 1].eventtype \in kinds

\* The step emits the segment that ends at the tick of row i + 1 and
\* restarts there
CutsAtRow ==
    /\ timeline' = Append(timeline, <<current, start, df[i + 1].tick>>)
    /\ start' = df[i + 1].tick

\* C17: on a switch-in at tick t of task T the reconstructor emits the
\* segment (current, segmentStart, t) and sets current = T and
\* segmentStart = t, whatever current was.
C17_SwitchInStep ==
    [][CpuReads({SWITCHED_IN}) => (CutsAtRow /\ current' = df[i + 1].taskid)]_vars

\* T1 is switched in twice in a row: the second switch-in has emitted the
\* segment of T1 between the two
C17_Witness ==
    /\ pc = "cpu"
    /\ i = 2
    /\ df[1].eventtype = SWITCHED_IN /\ df[1].taskid = "T1" /\ df[1].tick = 0
    /\ df[2].eventtype = SWITCHED_IN /\ df[2].taskid = "T1" /\ df[2].tick = 2
    /\ timeline[2] = <<"T1", 0, 2>>
    /\ current = "T1"
    /\ start = 2

\* C18: on a switch-out at tick t the reconstructor emits the segment
\* (current, segmentStart, t) and sets current = "IDLE" and segmentStart = t,
\* whether or not the task of the event is the current one.
C18_SwitchOutStep ==
    [][CpuReads({SWITCHED_OUT}) => (CutsAtRow /\ current' = IDLE)]_vars

\* Flush is switched in and T1 is switched out: the segment of Flush is
\* emitted and the CPU is idle
C18_Witness ==
    /\ pc = "cpu"
    /\ i = 2
    /\ df[1].eventtype = SWITCHED_IN /\ df[1].taskid = "Flush" /\ df[1].tick = 1
    /\ df[2].eventtype = SWITCHED_OUT /\ df[2].taskid = "T1" /\ df[2].tick = 2
    /\ timeline[2] = <<"Flush", 1, 2>>
    /\ current = IDLE
    /\ start = 2

\* C19: an event that is neither a switch-in nor a switch-out leaves
\* current, segmentStart and the emitted segments unchanged.
C19_OtherEventsIgnored ==
    [][(pc = "cpu" /\ i < Len(df) /\ df[i + 1].eventtype \notin {SWITCHED_IN, SWITCHED_OUT}) =>
          UNCHANGED <<current, start, timeline>>]_vars

\* T1 is switched in and sends to a queue: the send has been read and T1
\* still runs its one segment
C19_Witness ==
    /\ pc = "cpu"
    /\ i = 2
    /\ df[1].eventtype = SWITCHED_IN /\ df[1].taskid = "T1" /\ df[1].tick = 1
    /\ df[2].eventtype = "EVT_QUEUE_SEND" /\ df[2].tick = 2
    /\ Len(timeline) = 1
    /\ current = "T1"
    /\ start = 1

-----------------------------------------------------------------------------
(* CPU: the final segment and the default bound *)

\* The greatest tick of the stream, 0 for the empty stream
LastTick == IF df = <<>> THEN 0 ELSE MaxOf({df[k].tick : k \in DOMAIN df})

\* The reconstructor has emitted (current, segmentStart, xmax) last, and the
\* empty stream gives the single segment ("IDLE", xmin, xmax)
FinalSegmentEmitted ==
    /\ timeline # <<>>
    /\ timeline[Len(timeline)] = <<current, start, xmax>>
    /\ df = <<>> => cpu_out = <<<<IDLE, xmin, xmax>>>>

\* C20 as stated: at stream end the final segment (current, segmentStart,
\* xmax) is emitted, with no events the result is the single segment
\* ("IDLE", xmin, xmax), and when the caller gives no xmax, xmax is the
\* greatest tick of the stream plus 10.
C20_DefaultBoundIsLastTickPlusMargin ==
    (pc = "cpu_done" /\ script = "visualize_pro") =>
        /\ FinalSegmentEmitted
        /\ xmax_arg = <<>> => xmax = LastTick + 10

\* C20: in visualize_pro.py, at stream end the final segment (current,
\* segmentStart, xmax) is emitted, and returned unless current is an
\* excluded task; with no events the result is the single segment
\* ("IDLE", xmin, xmax); when the caller gives no xmax, xmax is the greatest
\* tick of the stream (0 for the empty stream) plus 10 if that is greater
\* than xmin, and xmin + 1 otherwise.
C20_FinalSegment ==
    (pc = "cpu_done" /\ script = "visualize_pro") =>
        /\ FinalSegmentEmitted
        /\ current \notin EXCLUDE_CPU_TASKS(script) =>
              cpu_out # <<>> /\ cpu_out[Len(cpu_out)] = <<current, start, xmax>>
        /\ current \in EXCLUDE_CPU_TASKS(script) =>
              \A n \in DOMAIN cpu_out : cpu_out[n][1] # current
        /\ xmax_arg = <<>> =>
              xmax = IF LastTick + 10 > xmin THEN LastTick + 10 ELSE xmin + 1

\* T1 is switched in at the last tick 2 and no bound is given: the final
\* segment of T1 runs to 12
C20_Witness ==
    /\ pc = "cpu_done"
    /\ script = "visualize_pro"
    /\ xmin_arg = <<>>
    /\ xmax_arg = <<>>
    /\ Len(df) = 2
    /\ df[2].eventtype = SWITCHED_IN /\ df[2].taskid = "T1" /\ df[2].tick = 2
    /\ xmax = 12
    /\ cpu_out[Len(cpu_out)] = <<"T1", 2, 12>>

-----------------------------------------------------------------------------
(* Blocking: the switch-out step *)

\* The blocking reconstructor is about to read row i + 1, an event of a task
\* that is not excluded
BlockReads(kinds) ==
    pc = "block" /\ i < Len(df) /\ BlockKept(i + 1) /\ df[i + 1].eventtype \in kinds

\* C21: on a switch-out at tick t of a task whose lastBlockingAPI is set to
\* c, the reconstructor sets openBlock[task] = (c, t) and clears
\* lastBlockingAPI[task]; a switch-out of a task whose lastBlockingAPI is
\* not set opens no block, so one classification call is consumed by at
\* most one switch-out.
C21_SwitchOutConsumesCall ==
    [][BlockReads({SWITCHED_OUT}) =>
          LET task == df[i + 1].taskid
          IN  IF DictHas(last_blocking_api, task)
              THEN /\ DictHas(open_block', task)
                   /\ DictGet(open_block', task) =
                          <<DictGet(last_blocking_api, task), df[i + 1].tick>>
                   /\ ~DictHas(last_blocking_api', task)
              ELSE /\ open_block' = open_block
                   /\ last_blocking_api' = last_blocking_api]_vars

\* T1 receives from a queue and is switched out at tick 1 and again at
\* tick 2: the block opened at tick 1 is the only one
C21_Witness ==
    /\ pc = "block"
    /\ script = "visualize_pro"
    /\ i = 3
    /\ df[1].eventtype = "EVT_QUEUE_RECEIVE" /\ df[1].taskid = "T1"
    /\ df[2].eventtype = SWITCHED_OUT /\ df[2].taskid = "T1" /\ df[2].tick = 1
    /\ df[3].eventtype = SWITCHED_OUT /\ df[3].taskid = "T1" /\ df[3].tick = 2
    /\ open_block = <<<<"T1", <<"QUEUE", 1>>>>>>
    /\ last_blocking_api = <<>>

-----------------------------------------------------------------------------
(* Absent ticks in the ordering *)

\* The stream the reconstructors read is loaded
StreamLoaded == pc \in {"loaded", "xrange", "ready"}

\* Row k of the file, whose tick is absent, is at place n of the stream with
\* tick 0: before every row of a positive tick, and in file order among
\* the rows of tick 0
OrderedAsTickZero(k, n) ==
    /\ df[n].ord = k
    /\ df[n].tick = 0
    /\ \A m \in DOMAIN df :
          /\ df[m].tick > 0 => n < m
          /\ (df[m].tick = 0 /\ df[m].ord < k) => m < n
          /\ (df[m].tick = 0 /\ df[m].ord > k) => n < m

\* C22: an event whose tick could not be recovered is in the stream the
\* reconstructors read, ordered as if its tick were 0: before every event of
\* a positive tick and in file order among the events of tick 0.
C22_AbsentTickOrderedAsZero ==
    StreamLoaded =>
        \A k \in DOMAIN rows :
            rows[k].tick = <<>> => \E n \in DOMAIN df : OrderedAsTickZero(k, n)

-----------------------------------------------------------------------------
(* Normalizer: the tick of the output row *)

\* normalize_row has returned
Normalized == pc \in {"write", "written", "filtered"}

\* The text is a number: digits, with or without blanks around them
IsNumericText(t) == Len(Strip(t)) = 1 /\ Strip(t)[1] \in DigitWords

\* C23: normalize_row turns the tick into the integer its text denotes when
\* the text is numeric and leaves a non-numeric or empty tick as the absent
\* marker, never as 0; it returns a row for every row parse_line gives.
C23_TickCoercion ==
    /\ Normalized =>
          /\ IsNumericText(row[1].tick) =>
                out[1].tick = <<IntValue(Strip(row[1].tick)[1])>>
          /\ ~IsNumericText(row[1].tick) => out[1].tick = <<>>
    /\ pc = "normalize" => ENABLED NormalizeRow

\* A structured line whose tick field is the word abc: the row is written
\* with no tick
C23_Witness ==
    /\ pc = "written"
    /\ row # <<>>
    /\ row[1].tick = <<"abc">>
    /\ row[1].eventtype = SWITCHED_IN
    /\ out[1].tick = <<>>

-----------------------------------------------------------------------------
(* Free-text tick heuristic *)

\* The scratch map of the line, as the running parser builds it
ScratchMap == IF script = "parse_in_out" THEN extract_kv_lower(line) ELSE extract_kv(line)

\* The digits of a bracketed pattern [tick=NNN], [tick:NNN] or [NNN] that
\* opens at p, <<>> when none opens there
BracketedAt(p) ==
    LET q == IF p + 2 <= Len(line) /\ line[p + 1] = "tick" /\ line[p + 2] \in {"=", ":"}
             THEN p + 3 ELSE p + 1
    IN  IF /\ line[p] = "["
           /\ q + 1 <= Len(line)
           /\ line[q] \in DigitWords
           /\ line[q + 1] = "]"
        THEN <<line[q]>> ELSE <<>>

\* The tick of section 4.1: (a) the tick of the scratch map when it is all
\* digits, else (b) the digits of the first bracketed pattern, else (c) the
\* first number of the line, else (d) absent
TickByPriority ==
    LET brackets == {p \in DOMAIN line : BracketedAt(p) # <<>>}
        numbers == {p \in DOMAIN line : line[p] \in DigitWords}
    IN  IF DictHas(ScratchMap, "tick") /\ IsDigit(DictGet(ScratchMap, "tick"))
        THEN DictGet(ScratchMap, "tick")
        ELSE IF brackets # {} THEN BracketedAt(MinOf(brackets))
        ELSE IF numbers # {} THEN <<line[MinOf(numbers)]>>
        ELSE <<>>

\* C24: the tick the heuristic gives a free-text line is (a) the scratch
\* map's tick when it is all digits, else (b) the digits of a bracketed
\* [tick=NNN], [tick:NNN] or [NNN], else (c) the first run of digits of the
\* line, else (d) absent; a bracketed [NNN] goes before an earlier bare
\* number.
C24_TickByPriority ==
    (Parsed /\ row # <<>> /\ fields = <<>>
        /\ (script = "parse_in_out" \/ extract_from_csv_like(line) = <<>>)) =>
            row[1].tick = TickByPriority

-----------------------------------------------------------------------------
(* Free-text keyword matching *)

\* The line is parsed as free text
FreeTextParsed ==
    /\ Parsed
    /\ fields = <<>>
    /\ script = "parse_in_out" \/ extract_from_csv_like(line) = <<>>

\* The word at p is a spelling of the switch-event pair in some case
SwitchSpellingAt(p) ==
    \E k \in DOMAIN IN_OUT_EVENT_MAP : UpperWord(line[p]) = UpperWord(k)

\* The word at p is a keyword: a recognized spelling in its exact case, or
\* a spelling of the switch-event pair in any case
KeywordAt(p) == line[p] \in DOMAIN EVENT_MAP \/ SwitchSpellingAt(p)

\* The kind of the keyword at p
KindAt(p) ==
    IF line[p] \in DOMAIN EVENT_MAP THEN EVENT_MAP[line[p]]
    ELSE IN_OUT_EVENT_MAP[CHOOSE k \in DOMAIN IN_OUT_EVENT_MAP :
                              UpperWord(line[p]) = UpperWord(k)]

\* C25: the keyword search of a free-text line is case-sensitive for every
\* kind but the switch-event pair, whose spellings are recognized in any
\* case and normalized to the switch-in and switch-out kinds; the keys of
\* the scratch map are lower-cased before lookup, so a Tick key is read as
\* tick.
C25_KeywordCase ==
    FreeTextParsed =>
        LET hits == {p \in DOMAIN line : KeywordAt(p)}
        IN  /\ hits = {} => row = <<>>
            /\ hits # {} => row # <<>> /\ row[1].eventtype = KindAt(MinOf(hits))
            /\ (row # <<>> /\ DictHas(extract_kv_lower(line), "tick")
                  /\ IsDigit(DictGet(extract_kv_lower(line), "tick"))) =>
                  row[1].tick = DictGet(extract_kv_lower(line), "tick")

-----------------------------------------------------------------------------
(* Independent reconstruction calls *)

\* build_cpu_timeline on the rows d from row k on, with the locals c
RECURSIVE CpuFrom(_, _, _)
CpuFrom(d, k, c) == IF k > Len(d) THEN c ELSE CpuFrom(d, k + 1, CpuIter(d[k], c))

\* What call c of main() returns when it is the only call of its process:
\* the bounds are its own arguments, or -10 and 12000
ResultAlone(c) ==
    LET lo == IF calls[c].xmin_arg = <<>> THEN X_MIN ELSE calls[c].xmin_arg[1]
        hi == IF calls[c].xmax_arg = <<>> THEN X_MAX ELSE calls[c].xmax_arg[1]
        end == CpuFrom(calls[c].df, 1, [current |-> IDLE, start |-> lo, timeline |-> <<>>])
    IN  CpuReturned(Append(end.timeline, <<end.current, end.start, hi>>),
                    "visualize_interactive")

\* C26: the bounds a reconstruction call uses are its own, so when two
\* traces are processed by successive or interleaved calls, the result of
\* each call is the result of running it alone.
C26_CallsDoNotInterfere ==
    \A c \in DOMAIN calls :
        calls[c].pc = "done" => calls[c].cpu_df = ResultAlone(c)

-----------------------------------------------------------------------------
(* Blocking: a block that is open at the end of the stream *)

\* The blocking segments of task emitted so far
SegmentsOf(task) == {n \in DOMAIN blocking : blocking[n][1] = task}

\* The switch-ins of task among the rows read so far
SwitchInsOf(task) == {m \in 1..i : IsInOf(m, task)}

\* C27: a block that is still open at the end of the stream gives no
\* blocking segment: every segment ends at the tick of a switch-in of its
\* task, none at xmax, and a task never has more blocking segments than
\* switch-ins.
C27_OpenBlockGivesNoSegment ==
    pc \in {"block", "block_done"} =>
        \A n \in DOMAIN blocking :
            /\ \E m \in SwitchInsOf(blocking[n][1]) : blocking[n][4] = df[m].tick
            /\ blocking[n][4] < xmax
            /\ Cardinality(SegmentsOf(blocking[n][1])) <=
                  Cardinality(SwitchInsOf(blocking[n][1]))

\* T1 makes a blocking call and is switched out, and is not switched in
\* again: the stream ends with the block of T1 open and no segment
C27_Witness ==
    /\ pc = "block_done"
    /\ script = "visualize_pro"
    /\ DictHas(open_block, "T1")
    /\ \A m \in DOMAIN df : ~IsInOf(m, "T1")
    /\ blocking = <<>>

-----------------------------------------------------------------------------
(* Segments do not run backwards *)

\* infer_xrange has returned
BoundsInferred == pc \notin {"load", "xrange"}

\* C28: in visualize_pro.py, on the stream sorted by tick, every blocking
\* segment has start <= end; with the default bounds every CPU segment has
\* start <= end; and infer_xrange returns xmax > xmin, with xmax = xmin + 1
\* when the bounds given or inferred would have xmax <= xmin.
C28_NoBackwardSegments ==
    /\ pc \in {"block", "block_done"} =>
          \A n \in DOMAIN blocking : blocking[n][3] <= blocking[n][4]
    /\ (pc \in {"cpu", "cpu_done"} /\ xmin_arg = <<>> /\ xmax_arg = <<>>) =>
          \A k \in DOMAIN timeline : timeline[k][2] <= timeline[k][3]
    /\ BoundsInferred =>
          /\ xmax > xmin
          /\ xmax = IF XmaxRaw(df, xmax_arg, script) <= xmin
                    THEN xmin + 1 ELSE XmaxRaw(df, xmax_arg, script)

\* --xmin 12 --xmax 1: the bounds are 12 and 13, and the block of T1 from
\* tick 0 to tick 2 is emitted
C28_Witness ==
    /\ pc = "block_done"
    /\ xmin_arg = <<MaxTick + XMargin>>
    /\ xmax_arg = <<1>>
    /\ xmin = MaxTick + XMargin
    /\ xmax = xmin + 1
    /\ blocking = <<<<"T1", "QUEUE", 0, 2>>>>

-----------------------------------------------------------------------------
(* Blocking: the scratch state is per task *)

\* The entry of task in the dict d, <<v>> or <<>>
EntryOf(d, task) == IF DictHas(d, task) THEN <<DictGet(d, task)>> ELSE <<>>

\* The tasks that have an entry in one of the scratch dicts
ScratchTasks ==
    DictKeys(last_blocking_api) \cup DictKeys(open_block)
        \cup DictKeys(last_blocking_api') \cup DictKeys(open_block')

\* No key stands twice in the dict
OneEntryPerKey(d) == \A a, b \in DOMAIN d : d[a][1] = d[b][1] => a = b

\* C29: each task has at most one open block at any point of the pass; a
\* classified switch-out of a task that has an open block overwrites it and
\* emits nothing; an unclassified switch-out leaves an open block
\* unchanged; and an event of one task changes neither lastBlockingAPI nor
\* openBlock of another task.
C29_PerTaskScratchState ==
    [][(pc = "block" /\ i < Len(df)) =>
          LET r == df[i + 1]
          IN  /\ \A task \in ScratchTasks \ {r.taskid} :
                    /\ EntryOf(last_blocking_api', task) = EntryOf(last_blocking_api, task)
                    /\ EntryOf(open_block', task) = EntryOf(open_block, task)
              /\ (BlockKept(i + 1) /\ r.eventtype = SWITCHED_OUT) =>
                    /\ blocking' = blocking
                    /\ EntryOf(open_block', r.taskid) =
                          IF DictHas(last_blocking_api, r.taskid)
                          THEN <<<<DictGet(last_blocking_api, r.taskid), r.tick>>>>
                          ELSE EntryOf(open_block, r.taskid)
              /\ OneEntryPerKey(open_block') /\ OneEntryPerKey(last_blocking_api')]_vars

\* T1 receives from a queue and is switched out at tick 0, delays and is
\* switched out at the last tick: the open block of T1 is the DELAY block
\* of the last tick, and nothing was emitted
C29_Witness ==
    /\ pc = "block"
    /\ i = 4
    /\ df[1].eventtype = "EVT_QUEUE_RECEIVE" /\ df[2].eventtype = SWITCHED_OUT /\ df[2].tick = 0
    /\ df[3].eventtype = "EVT_TASK_DELAY" /\ df[4].eventtype = SWITCHED_OUT /\ df[4].tick = MaxTick
    /\ \A k \in 1..4 : df[k].taskid = "T1"
    /\ open_block = <<<<"T1", <<"DELAY", MaxTick>>>>>>
    /\ blocking = <<>>

-----------------------------------------------------------------------------
(* CPU timeline: count, chain and subject of the appended segments *)

IsSwitch(r) == r.eventtype \in {SWITCHED_IN, SWITCHED_OUT}

\* The switch events of the stream, in stream order
Switches == SelectSeq(df, IsSwitch)

\* The task on the CPU after the first k switch events: the task of the
\* k-th one when it is a switch-in, IDLE when it is a switch-out or k = 0
RunningAfter(k) ==
    IF k = 0 THEN IDLE
    ELSE IF Switches[k].eventtype = SWITCHED_IN THEN Switches[k].taskid
    ELSE IDLE

\* C30: before the exclusion filter, build_cpu_timeline has appended one
\* segment per switch event plus one, each segment ends where the next
\* starts, and the subject of a segment is IDLE or the task of the most
\* recent switch-in that no switch-out followed.
C30_CountChainSubject ==
    pc = "cpu_done" =>
        /\ Len(timeline) = Len(Switches) + 1
        /\ \A k \in 1..(Len(timeline) - 1) : timeline[k][3] = timeline[k + 1][2]
        /\ \A k \in DOMAIN timeline : timeline[k][1] = RunningAfter(k - 1)

\* T1 is switched in, sends to a queue and is switched out: three segments,
\* IDLE, T1, IDLE
C30_Witness ==
    /\ pc = "cpu_done"
    /\ Len(df) = 3
    /\ df[1].eventtype = SWITCHED_IN /\ df[1].taskid = "T1"
    /\ df[2].eventtype = "EVT_QUEUE_SEND"
    /\ df[3].eventtype = SWITCHED_OUT
    /\ Len(timeline) = 3
    /\ timeline[1][1] = IDLE /\ timeline[2][1] = "T1" /\ timeline[3][1] = IDLE

====
